---- MODULE Spec2Model ----
(***************************************************************************)
(* Model of the secure chat protocol core:                                 *)
(*   - ReplayProtection (src/src/04_replay/crypto-utils.ts)                *)
(*   - the Phase 3/4 command-line client handshake                         *)
(*     (src/src/03_encryption/client.ts, src/unnamed/part_005) and the     *)
(*     Phase 3 relay (src/src/03_encryption/server.ts).                    *)
(* Times are milliseconds, as returned by Date.now().                      *)
(***************************************************************************)
EXTENDS Integers, Sequences, FiniteSets, TLC

\* ------------------------------------------------------------------------
\* Bounds of the model
\* ------------------------------------------------------------------------
\* last clock reading at which validate is still called (the clock itself
\* runs on until MaxNow + windowMs so that every timer becomes due)
MaxNow == 65000
\* largest number of copies of one packet delivered concurrently
MaxCopies == 2
\* largest number of AES session keys generated by all clients together
MaxKeys == 2
\* number of session keys generated in runs in which clients leave
MaxCloseKeys == 1
\* number of connect commands typed at the Phase 5 clients together
MaxConnects == 1
\* number of msg commands that send a frame, Phase 5 clients together
MaxMsgs == 1
\* number of frames the peer that is not a client sends to the Phase 5 relay
MaxRogue == 2
\* number of chat frames the Phase 3 clients send together
MaxSent == 2
\* number of chat frames the peer that is not a client sends
MaxChats == 2
\* number of list commands typed, all clients together
MaxLists == 2
\* number of connections made to the relay
MaxSockets == 3
\* number of chat frames sent to the browser client on one connection
MaxWebChats == 2
\* number of frames the browser client has received and not yet handled
MaxWebInbox == 2

\* ------------------------------------------------------------------------
\* Program constants
\* ------------------------------------------------------------------------
\* constructor(windowSeconds: number = 60)
windowSeconds == 60
\* this.windowMs = windowSeconds * 1000
windowMs == windowSeconds * 1000
\* "Allow 5s clock skew": packet.timestamp > now + 5000
clockSkewMs == 5000

\* ------------------------------------------------------------------------
\* Inputs
\* ------------------------------------------------------------------------
Nonces == {"n1", "n2"}
\* amounts by which Date.now() is seen to advance between two events
ClockSteps == {20000, 60000}
\* packet.timestamp relative to the submitter's reading of the clock
Offsets == {-61000, -60001, -60000, 0, 4000, 5000, 5001, 6000}

\* stands for "no time": below every clock reading and timestamp
NoTime == 0 - 1000000

VARIABLES
    now,         \* Date.now()
    seenNonces,  \* ReplayProtection.seenNonces
    timers,      \* pending setTimeout callbacks: [nonce, due]
    inflight,    \* packets queued for validate (concurrent deliveries)
    result,      \* what the most recent validate call returned
    tracked,     \* history: one accepted packet and when it was accepted
    batch        \* history: the current group of concurrent deliveries

VARIABLES
    relayClients,    \* relay: ids of the connections in `clients`
    relayKey,        \* relay: ws.publicKey of each connection
    toClient,        \* frames sent to each client, not yet handled by it
    opened,          \* client: ws.on('open') has run
    connectedUsers,  \* client: the last user list received
    targetUser,      \* client: targetUser
    sessionKey,      \* client: sessionKey
    lastLog,         \* client: the last outcome printed for a key_exchange
    keysGenerated    \* number of AES keys each client has generated

VARIABLES
    caIssued,        \* CA: the certificate sent in the last certificate_issued
    presented,       \* the certificate handed to the verifier
    certCheck        \* the outcome of the last verification

VARIABLES
    authClients,     \* Phase 5 relay: ids of the connections in `clients`
    relayCert,       \* Phase 5 relay: ws.certificate of each connection
    toAuth,          \* frames sent to each connection, not yet handled by it
    relayIn,         \* history: the frame the relay handled in this step
    stage,           \* client: how far its start-up has got
    caRootKey,       \* client: caRootKey
    myCertificate,   \* client: myCertificate
    authUsers,       \* client: connectedUsers
    authTarget,      \* client: targetUser
    authKey,         \* client: sessionKey
    authLog,         \* client: the last outcome printed
    verifiedIds,     \* history: user ids whose certificate the client found valid
    used             \* commands typed and frames made up so far

VARIABLES
    aesCall,         \* the last call of encryptMessageAES / decryptMessageAES
    shown,           \* Phase 3/4 client: the chat messages displayed
    authShown,       \* Phase 5 client: the chat messages displayed
    sent,            \* Phase 3/4 clients: number of chat frames sent so far
    caHeld,          \* each requester's last sign_request and the certificate got
    caRootSent,      \* the key each requester got in root_key
    bootSent,        \* Phase 5 client: what it has sent and opened so far, in order
    wsId,            \* relay: ws.id of each connection made to it
    clients,         \* relay: the Map `clients`, the connection kept under each id
    readyState,      \* relay: each connection not yet made, open or closed
    userLists,       \* relay: number of user_list frames sent to each connection
    webKeyPair,      \* browser client: the state keyPair
    webSessionKey,   \* browser client: the state _sessionKey
    webTargetUser,   \* browser client: the state targetUser
    webOnmessage,    \* browser client: keyPair and _sessionKey in the scope of
                     \* the handleIncomingMessage that socket.onmessage calls
    webInbox,        \* browser client: frames received, not yet handled
    webMessages      \* browser client: the state messages

webVars == <<webKeyPair, webSessionKey, webTargetUser, webOnmessage, webInbox,
             webMessages>>
extVars == <<aesCall, shown, authShown, sent, caHeld, caRootSent, bootSent,
             wsId, clients, readyState, userLists, webVars>>
replayVars == <<now, seenNonces, timers, inflight, result, tracked, batch>>
caVars == <<caIssued, presented, certCheck>>
authVars == <<authClients, relayCert, toAuth, relayIn, stage, caRootKey,
              myCertificate, authUsers, authTarget, authKey, authLog,
              verifiedIds, used>>
chatVars == <<relayClients, relayKey, toClient, opened, connectedUsers,
              targetUser, sessionKey, lastLog, keysGenerated>>
vars == <<now, seenNonces, timers, inflight, result, tracked, batch,
          relayClients, relayKey, toClient, opened, connectedUsers,
          targetUser, sessionKey, lastLog, keysGenerated,
          caIssued, presented, certCheck,
          authClients, relayCert, toAuth, relayIn, stage, caRootKey,
          myCertificate, authUsers, authTarget, authKey, authLog,
          verifiedIds, used,
          aesCall, shown, authShown, sent, caHeld, caRootSent, bootSent,
          wsId, clients, readyState, userLists,
          webKeyPair, webSessionKey, webTargetUser, webOnmessage, webInbox,
          webMessages>>

\* ------------------------------------------------------------------------
\* Hybrid encryption helpers (src/src/03_encryption/crypto-utils.ts)
\* ------------------------------------------------------------------------
Clients == {"A", "B", "C"}

NoKey == [null |-> TRUE]
NoPub == "undefined"
NoUser == [id |-> "null", publicKey |-> NoPub]

\* generateRSAKeys(), once per client process
PublicKeyOf(c) == "PUBLIC-" \o c
PrivateKeyOf(c) == <<"private", c>>

\* buf.toString('base64') and Buffer.from(str, 'base64')
ToBase64(bytes) == [base64 |-> bytes]
FromBase64(str) == str.base64

\* generateAESKey(): client c's k-th draw of randomBytes(32), as base64
generateAESKey(c, k) == ToBase64(<<"random", c, k>>)

\* encryptAESKeyWithRSA: RSA-OAEP of the decoded key under the recipient's key
encryptAESKeyWithRSA(aesKeyBase64, recipientPublicKey) ==
    ToBase64([oaep |-> FromBase64(aesKeyBase64), key |-> recipientPublicKey,
              intact |-> TRUE])

\* Buffer.from throws for an argument that is a number; privateDecrypt
\* throws unless the ciphertext is an intact OAEP encryption under the
\* public key that matches privateKey
DecryptThrows(encryptedAESKeyBase64, privateKey) ==
    IF "base64" \notin DOMAIN encryptedAESKeyBase64
    THEN TRUE
    ELSE LET ct == FromBase64(encryptedAESKeyBase64)
         IN ~ct.intact \/ ct.key # PublicKeyOf(privateKey[2])

\* decryptAESKeyWithRSA, when it does not throw
decryptAESKeyWithRSA(encryptedAESKeyBase64, privateKey) ==
    ToBase64(FromBase64(encryptedAESKeyBase64).oaep)

\* ------------------------------------------------------------------------
\* Certificates: the CA (src/unnamed/part_004) and the check of a
\* certificate in handleCertResponse (src/src/05_auth/crypto-utils.ts)
\* ------------------------------------------------------------------------
\* user ids and PEM keys a sign_request may carry; two pairs have the same
\* concatenation
UserIds == {"User-1", "User-12", "User-2"}
PublicKeys == {"2PEM", "PEM"}

\* caKeyPair, and a key pair that is not the CA's
caKeyPair == [publicKey |-> "CA-PUBLIC", privateKey |-> "CA-PRIVATE"]
otherKeyPair == [publicKey |-> "X-PUBLIC", privateKey |-> "X-PRIVATE"]

\* a missing field of a JSON object reads as undefined, and undefined
\* concatenated with a string gives "undefined..."
Field(obj, f) == IF f \in DOMAIN obj THEN obj[f] ELSE "undefined"

\* crypto.sign("sha256", data, privateKey): the signature bytes
sign(data, privateKey) == [signed |-> data, key |-> privateKey]

\* crypto.verify("sha256", data, publicKey, signature)
verify(data, publicKey, signature) ==
    /\ signature.signed = data
    /\ \E pair \in {caKeyPair, otherKeyPair} :
          pair.publicKey = publicKey /\ pair.privateKey = signature.key

\* the payloads of a sign_request: userId and userPublicKey, either of which
\* may be missing
CsrPayloads ==
    {[userId |-> u, userPublicKey |-> k] : u \in UserIds, k \in PublicKeys}
    \cup {[userId |-> u] : u \in UserIds}
    \cup {[userPublicKey |-> k] : k \in PublicKeys}
    \cup {[other |-> "x"]}

\* variant: a CA that checks identity, and signs one key only for a user id
CaSignThrowsUnlessOwner(payload) ==
    \/ "userId" \notin DOMAIN payload /\ "userPublicKey" \notin DOMAIN payload
    \/ "userPublicKey" \in DOMAIN payload /\ payload.userPublicKey # "PEM"

\* CA, sign_request: userId + userPublicKey is NaN when both are undefined,
\* and Buffer.from(NaN) throws
CaSignThrows(payload) ==
    "userId" \notin DOMAIN payload /\ "userPublicKey" \notin DOMAIN payload

\* variant: the key is signed before the user id
contentToSignSwapped(payload) ==
    Field(payload, "userPublicKey") \o Field(payload, "userId")

\* CA, sign_request: contentToSign
contentToSign(payload) == Field(payload, "userId") \o Field(payload, "userPublicKey")

\* CA, sign_request: the certificate as the client parses it from the
\* certificate_issued frame (JSON.stringify leaves out undefined fields)
CaCertificate(payload) ==
    LET present == {"issuer", "signature"}
                   \cup (IF "userId" \in DOMAIN payload THEN {"userId"} ELSE {})
                   \cup (IF "userPublicKey" \in DOMAIN payload
                         THEN {"publicKey"} ELSE {})
    IN [f \in present |->
          CASE f = "userId" -> payload.userId
            [] f = "publicKey" -> payload.userPublicKey
            [] f = "issuer" -> "Antigravity Root CA"
            [] f = "signature" ->
                 ToBase64(sign(contentToSign(payload), caKeyPair.privateKey))]

\* variant: only the key is checked
contentToVerifyKeyOnly(cert) == Field(cert, "publicKey")

\* handleCertResponse: contentToVerify
contentToVerify(cert) == Field(cert, "userId") \o Field(cert, "publicKey")

\* handleCertResponse: the verify line throws a TypeError when the
\* signature is missing (Buffer.from(undefined, 'base64')) or when userId
\* and publicKey are both missing (Buffer.from(NaN))
VerifyThrows(cert) ==
    \/ "signature" \notin DOMAIN cert
    \/ "userId" \notin DOMAIN cert /\ "publicKey" \notin DOMAIN cert

\* handleCertResponse: isValid
isValid(cert, rootKey) ==
    verify(contentToVerify(cert), rootKey, FromBase64(cert.signature))

\* no certificate
NoCert == [none |-> TRUE]
\* the connections to the CA
Requesters == {"c1", "c2"}
\* nothing asked of the CA and nothing got
NoHeld == [asked |-> NoCert, cert |-> NoCert]
NoPresented == [cert |-> NoCert, changed |-> {}]
NoCheck == [cert |-> NoCert, changed |-> {}, outcome |-> "none"]

\* the same base64 text without its trailing '=' padding: Buffer.from(s,
\* 'base64') decodes both to the same bytes
Unpadded(str) == [base64 |-> FromBase64(str), padding |-> FALSE]

\* the ways a certificate is changed on its way to the verifier: the fields
\* changed, and the values put in their place
Changes ==
    {[changed |-> {}, userId |-> "", publicKey |-> "", signature |-> ""]}
    \cup {[changed |-> {"userId"}, userId |-> u, publicKey |-> "", signature |-> ""] :
            u \in UserIds}
    \cup {[changed |-> {"publicKey"}, userId |-> "", publicKey |-> k, signature |-> ""] :
            k \in PublicKeys}
    \cup {[changed |-> {"userId", "publicKey"}, userId |-> u, publicKey |-> k,
           signature |-> ""] : u \in UserIds, k \in PublicKeys}
    \cup {[changed |-> {"signature"}, userId |-> "", publicKey |-> "", signature |-> g] :
            g \in {"unpadded", "other key", "other content", "junk"}}
    \cup {[changed |-> {"signature removed"}, userId |-> "", publicKey |-> "",
           signature |-> ""]}

\* the signature text put in the place of the signature of `cert`
OtherSignature(cert, g) ==
    CASE g = "unpadded" -> Unpadded(cert.signature)
      [] g = "other key" ->
           ToBase64(sign(contentToVerify(cert), otherKeyPair.privateKey))
      [] g = "other content" -> ToBase64(sign("", caKeyPair.privateKey))
      [] g = "junk" -> ToBase64([signed |-> "", key |-> "none"])

\* change ch makes a different certificate of `cert`
Applies(cert, ch) ==
    /\ "userId" \in ch.changed =>
          "userId" \in DOMAIN cert /\ ch.userId # cert.userId
    /\ "publicKey" \in ch.changed =>
          "publicKey" \in DOMAIN cert /\ ch.publicKey # cert.publicKey

\* `cert` after change ch
Tampered(cert, ch) ==
    LET fields == IF "signature removed" \in ch.changed
                  THEN DOMAIN cert \ {"signature"} ELSE DOMAIN cert
    IN [f \in fields |->
          IF f \in ch.changed
          THEN (IF f = "signature" THEN OtherSignature(cert, ch.signature)
                ELSE ch[f])
          ELSE cert[f]]

CaInit ==
    /\ caIssued = NoCert
    /\ presented = NoPresented
    /\ certCheck = NoCheck

\* variant: the key sent is not the public key of the pair that signs
CaRootKeyOther == otherKeyPair.publicKey

\* CA, get_root_key: the key sent in root_key
CaRootKey == caKeyPair.publicKey

\* CA, sign_request: the certificate is issued, or the handler throws and
\* logs 'CA Error'
CaSignRequest(r, payload) ==
    /\ caIssued' = IF CaSignThrows(payload) THEN caIssued ELSE CaCertificate(payload)
    /\ caHeld' = [caHeld EXCEPT ![r] =
                     [asked |-> payload,
                      cert |-> IF CaSignThrows(payload) THEN NoCert
                               ELSE CaCertificate(payload)]]
    /\ presented' = NoPresented
    /\ certCheck' = NoCheck
    /\ UNCHANGED <<aesCall, shown, authShown, sent, caRootSent, bootSent>>
    /\ UNCHANGED <<wsId, clients, readyState, userLists, webVars>>
    /\ UNCHANGED <<replayVars, chatVars, authVars>>

\* CA, get_root_key from connection r: root_key is sent
CaGetRootKey(r) ==
    /\ caRootSent' = [caRootSent EXCEPT ![r] = CaRootKey]
    /\ UNCHANGED <<aesCall, shown, authShown, sent, caHeld, bootSent>>
    /\ UNCHANGED <<wsId, clients, readyState, userLists, webVars>>
    /\ UNCHANGED <<replayVars, chatVars, caVars, authVars>>

\* the issued certificate reaches a verifier as issued or changed on the way
Present(ch) ==
    /\ caIssued # NoCert
    /\ Applies(caIssued, ch)
    /\ presented' = [cert |-> Tampered(caIssued, ch), changed |-> ch.changed]
    /\ certCheck' = NoCheck
    /\ UNCHANGED caIssued
    /\ UNCHANGED <<replayVars, chatVars, authVars, extVars>>

\* handleCertResponse, the verify line, with the root key the CA returned
VerifyOutcome(cert, rootKey) ==
    IF VerifyThrows(cert) THEN "throws"
    ELSE IF isValid(cert, rootKey) THEN "true" ELSE "false"

VerifyPresented ==
    /\ presented # NoPresented
    /\ certCheck' = [cert |-> presented.cert, changed |-> presented.changed,
                     outcome |-> VerifyOutcome(presented.cert, CaRootKey)]
    /\ UNCHANGED <<caIssued, presented>>
    /\ UNCHANGED <<replayVars, chatVars, authVars, extVars>>

CaNext ==
    \/ \E r \in Requesters, payload \in CsrPayloads : CaSignRequest(r, payload)
    \/ \E r \in Requesters : CaGetRootKey(r)
    \/ \E ch \in Changes : Present(ch)
    \/ VerifyPresented

\* ------------------------------------------------------------------------
\* encryptMessageAES / decryptMessageAES (src/src/03_encryption/
\* crypto-utils.ts): AES-256-GCM.  A ciphertext names the text, key and iv
\* it was made from; a tag names the ciphertext, key and iv it
\* authenticates and its length in bytes.
\* ------------------------------------------------------------------------
Plaintexts == {"", "hi", "grüezi"}
AESKeys == {generateAESKey("A", 1), generateAESKey("B", 1)}
\* the draws of randomBytes(12)
IVs == {1, 2}

\* the text as utf8 bytes (cipher.update(message, 'utf8', ...)) and back
\* (decipher.update(..., 'utf8'))
Utf8Encode(text) == [utf8 |-> text]
Utf8Decode(bytes) == bytes.utf8

\* the tag lengths setAuthTag accepts for GCM when createDecipheriv was
\* given no authTagLength
GcmTagLengths == {4, 8, 12, 13, 14, 15, 16}

\* variant: the tag is made for another iv than the one sent
encryptMessageAESOtherIv(message, aesKeyBase64, iv) ==
    LET key == FromBase64(aesKeyBase64)
        encrypted == [gcm |-> Utf8Encode(message), key |-> key, iv |-> iv]
    IN [iv |-> ToBase64(iv),
        encrypted |-> ToBase64(encrypted),
        authTag |-> ToBase64([mac |-> encrypted, key |-> key, iv |-> 0,
                              length |-> 16])]

\* encryptMessageAES(message, aesKeyBase64), with the iv drawn; the
\* envelope is given as decryptMessageAES parses it
encryptMessageAES(message, aesKeyBase64, iv) ==
    LET key == FromBase64(aesKeyBase64)
        encrypted == [gcm |-> Utf8Encode(message), key |-> key, iv |-> iv]
    IN [iv |-> ToBase64(iv),
        encrypted |-> ToBase64(encrypted),
        authTag |-> ToBase64([mac |-> encrypted, key |-> key, iv |-> iv,
                              length |-> 16])]

\* variant: the tag is not checked
DecryptMessageThrowsNever(encryptedPayload, aesKeyBase64) ==
    DOMAIN encryptedPayload # {"iv", "encrypted", "authTag"}

\* decryptMessageAES throws: the envelope is not an object with the three
\* fields, setAuthTag refuses the length of the tag, or decipher.final()
\* finds that the tag does not authenticate the ciphertext under key and iv
DecryptMessageThrows(encryptedPayload, aesKeyBase64) ==
    IF DOMAIN encryptedPayload # {"iv", "encrypted", "authTag"}
    THEN TRUE
    ELSE LET key == FromBase64(aesKeyBase64)
             iv == FromBase64(encryptedPayload.iv)
             encrypted == FromBase64(encryptedPayload.encrypted)
             authTag == FromBase64(encryptedPayload.authTag)
         IN \/ authTag.length \notin GcmTagLengths
            \/ authTag.mac # encrypted
            \/ authTag.key # key
            \/ authTag.iv # iv

\* decryptMessageAES, when it does not throw
decryptMessageAES(encryptedPayload, aesKeyBase64) ==
    Utf8Decode(FromBase64(encryptedPayload.encrypted).gcm)

\* the outcome of a call of decryptMessageAES
DecryptOutcome(encryptedPayload, aesKeyBase64) ==
    IF DecryptMessageThrows(encryptedPayload, aesKeyBase64)
    THEN [throws |-> TRUE]
    ELSE [plaintext |-> decryptMessageAES(encryptedPayload, aesKeyBase64)]

\* the ways an envelope is changed before it is decrypted
EnvelopeChanges ==
    {"none", "ciphertext", "ciphertext respelled", "authTag",
     "authTag respelled", "authTag truncated", "iv"}

\* bytes that are no ciphertext of any text under any key
OtherBytes == [gcm |-> Utf8Encode("?"), key |-> <<"random", "none", 0>>, iv |-> 0]

\* the envelope after change ch: other ciphertext bytes, other tag bytes of
\* the same length, the first four bytes of the tag, another iv, or the same
\* bytes in another base64 spelling (without the padding, or with a line
\* break added)
ChangedEnvelope(envelope, ch) ==
    CASE ch = "none" -> envelope
      [] ch = "ciphertext" -> [envelope EXCEPT !.encrypted = ToBase64(OtherBytes)]
      [] ch = "ciphertext respelled" ->
           [envelope EXCEPT !.encrypted = Unpadded(@)]
      [] ch = "authTag" ->
           [envelope EXCEPT !.authTag =
               ToBase64([FromBase64(@) EXCEPT !.mac = OtherBytes])]
      [] ch = "authTag respelled" -> [envelope EXCEPT !.authTag = Unpadded(@)]
      [] ch = "authTag truncated" ->
           [envelope EXCEPT !.authTag =
               ToBase64([FromBase64(@) EXCEPT !.length = 4])]
      [] ch = "iv" -> [envelope EXCEPT !.iv = ToBase64(0)]

NoEnvelope == [none |-> TRUE]
NoAes == [message |-> "", key |-> NoKey, envelope |-> NoEnvelope,
          changed |-> "none", presented |-> NoEnvelope,
          decryptKey |-> NoKey, outcome |-> [none |-> TRUE]]

\* a call of encryptMessageAES
AesEncrypt(message, key, iv) ==
    /\ aesCall' = [NoAes EXCEPT !.message = message, !.key = key,
                                !.envelope = encryptMessageAES(message, key, iv),
                                !.presented = encryptMessageAES(message, key, iv)]
    /\ UNCHANGED <<shown, authShown, sent, caHeld, caRootSent, bootSent>>
    /\ UNCHANGED <<wsId, clients, readyState, userLists, webVars>>
    /\ UNCHANGED <<replayVars, chatVars, caVars, authVars>>

\* the envelope is changed on its way
AesChange(ch) ==
    /\ aesCall.envelope # NoEnvelope
    /\ aesCall.changed = "none"
    /\ ch # "none"
    /\ aesCall' = [aesCall EXCEPT !.changed = ch,
                                  !.presented = ChangedEnvelope(aesCall.envelope, ch),
                                  !.decryptKey = NoKey,
                                  !.outcome = [none |-> TRUE]]
    /\ UNCHANGED <<shown, authShown, sent, caHeld, caRootSent, bootSent>>
    /\ UNCHANGED <<wsId, clients, readyState, userLists, webVars>>
    /\ UNCHANGED <<replayVars, chatVars, caVars, authVars>>

\* a call of decryptMessageAES on the envelope as it arrived
AesDecrypt(key) ==
    /\ aesCall.envelope # NoEnvelope
    /\ aesCall' = [aesCall EXCEPT !.decryptKey = key,
                                  !.outcome = DecryptOutcome(aesCall.presented, key)]
    /\ UNCHANGED <<shown, authShown, sent, caHeld, caRootSent, bootSent>>
    /\ UNCHANGED <<wsId, clients, readyState, userLists, webVars>>
    /\ UNCHANGED <<replayVars, chatVars, caVars, authVars>>

AesNext ==
    \/ \E message \in Plaintexts, key \in AESKeys, iv \in IVs :
          AesEncrypt(message, key, iv)
    \/ \E ch \in EnvelopeChanges : AesChange(ch)
    \/ \E key \in AESKeys : AesDecrypt(key)

\* ------------------------------------------------------------------------
\* Relay (src/src/03_encryption/server.ts)
\* A frame a client sends is handled by the relay in the same step: the
\* relay handles each connection's frames in the order sent, and nothing a
\* client does between its send and the relay's handling can reach the
\* relay before that frame.  Frames from the relay to a client wait in
\* toClient until the client's message handler takes them.
\* ------------------------------------------------------------------------
\* variant: only the clients that have registered a key are listed
getUserListRegistered(ids, keys) ==
    {[id |-> i, publicKey |-> keys[i]] : i \in {j \in ids : keys[j] # NoPub}}

\* getUserList()
getUserList(ids, keys) == {[id |-> i, publicKey |-> keys[i]] : i \in ids}

\* `frame` appended to the queue of every client in `ids`
SendAll(queues, ids, frame) ==
    [c \in DOMAIN queues |-> IF c \in ids THEN Append(queues[c], frame) ELSE queues[c]]

\* relay, msg.type === 'register': ws.publicKey after the frame
RelayRegisterKey(keys, c, msg) == [keys EXCEPT ![c] = msg.payload.publicKey]

\* relay, msg.type === 'register': broadcastUserList()
RelayRegisterSend(queues, ids, keys, c, msg) ==
    SendAll(queues, ids,
            [type |-> "user_list",
             users |-> getUserList(ids, RelayRegisterKey(keys, c, msg))])

\* relay, msg.type === 'direct': forward the payload to the target under the
\* sender's connection id, or answer the sender 'Target not found'
RelayDirectSend(queues, ids, c, msg) ==
    IF msg.targetId \in ids
    THEN [queues EXCEPT ![msg.targetId] =
            Append(@, [type |-> "direct", senderId |-> c, payload |-> msg.payload])]
    ELSE [queues EXCEPT ![c] =
            Append(@, [type |-> "error", message |-> "Target not found"])]

ChatInit ==
    /\ relayClients = {}
    /\ relayKey = [c \in Clients |-> NoPub]
    /\ toClient = [c \in Clients |-> <<>>]
    /\ opened = [c \in Clients |-> FALSE]
    /\ connectedUsers = [c \in Clients |-> {}]
    /\ targetUser = [c \in Clients |-> NoUser]
    /\ sessionKey = [c \in Clients |-> NoKey]
    /\ lastLog = [c \in Clients |-> "none"]
    /\ keysGenerated = [c \in Clients |-> 0]

\* the ids in the order in which the relay hands them out: a client is named
\* by the id its connection gets, so the first connection is "A"
IdOrder == <<"A", "B", "C">>

\* wss.on('connection'): the connection gets its id (ws.id = ...) and
\* enters `clients`
ServerConnection(c) ==
    /\ c \notin relayClients
    /\ ~opened[c]
    /\ c = IdOrder[Cardinality(relayClients \cup {x \in Clients : opened[x]}) + 1]
    /\ relayClients' = relayClients \cup {c}
    /\ UNCHANGED <<relayKey, toClient, opened, connectedUsers,
                   targetUser, sessionKey, lastLog, keysGenerated>>
    /\ UNCHANGED <<replayVars, caVars, authVars, extVars>>

\* ------------------------------------------------------------------------
\* Client (src/src/03_encryption/client.ts; src/unnamed/part_005 has the
\* same handshake code)
\* ------------------------------------------------------------------------
\* connectedUsers.find(u => u.id === id), NoUser when there is none
FindUser(users, id) ==
    IF \E u \in users : u.id = id
    THEN CHOOSE u \in users : u.id = id
    ELSE NoUser

\* ws.on('open'): register the public key
ClientOpen(c) ==
    /\ c \in relayClients
    /\ ~opened[c]
    /\ opened' = [opened EXCEPT ![c] = TRUE]
    /\ LET msg == [type |-> "register", payload |-> [publicKey |-> PublicKeyOf(c)]]
       IN /\ relayKey' = RelayRegisterKey(relayKey, c, msg)
          /\ toClient' = RelayRegisterSend(toClient, relayClients, relayKey, c, msg)
    /\ UNCHANGED <<relayClients, connectedUsers, targetUser,
                   sessionKey, lastLog, keysGenerated>>
    /\ UNCHANGED <<replayVars, caVars, authVars, extVars>>

\* ws.on('message'), msg.type === 'user_list'
ClientUserList(c) ==
    /\ opened[c]
    /\ toClient[c] # <<>>
    /\ Head(toClient[c]).type = "user_list"
    /\ connectedUsers' = [connectedUsers EXCEPT ![c] = Head(toClient[c]).users]
    /\ toClient' = [toClient EXCEPT ![c] = Tail(@)]
    /\ UNCHANGED <<relayClients, relayKey, opened, targetUser,
                   sessionKey, lastLog, keysGenerated>>
    /\ UNCHANGED <<replayVars, caVars, authVars, extVars>>

\* variant: a key that is held is kept, whoever sends another
KeyExchangeSessionKeyOnce(c, old, envelope) ==
    IF old # NoKey \/ DecryptThrows(envelope.payload.encryptedKey, PrivateKeyOf(c))
    THEN old
    ELSE decryptAESKeyWithRSA(envelope.payload.encryptedKey, PrivateKeyOf(c))

\* sessionKey after handleDirectMessage has handled a key_exchange payload:
\* assigned only when decryptAESKeyWithRSA returned
KeyExchangeSessionKey(c, old, envelope) ==
    IF DecryptThrows(envelope.payload.encryptedKey, PrivateKeyOf(c))
    THEN old
    ELSE decryptAESKeyWithRSA(envelope.payload.encryptedKey, PrivateKeyOf(c))

\* variant: the target is never assigned by a key_exchange
KeyExchangeTargetKept(c, old, users, envelope) == old

\* variant: the target is assigned before the key is decrypted
KeyExchangeTargetEarly(c, old, users, envelope) ==
    IF \E u \in users : u.id = envelope.senderId
    THEN CHOOSE u \in users : u.id = envelope.senderId
    ELSE [id |-> envelope.senderId, publicKey |-> "undefined"]

\* targetUser after handleDirectMessage has handled a key_exchange payload:
\* connectedUsers.find(u => u.id === senderId) || { id: senderId }
KeyExchangeTarget(c, old, users, envelope) ==
    IF DecryptThrows(envelope.payload.encryptedKey, PrivateKeyOf(c))
    THEN old
    ELSE IF FindUser(users, envelope.senderId) # NoUser
         THEN FindUser(users, envelope.senderId)
         ELSE [id |-> envelope.senderId, publicKey |-> NoPub]

\* ws.on('message'), msg.type === 'direct', payload.type === 'key_exchange'
ClientKeyExchange(c) ==
    /\ opened[c]
    /\ toClient[c] # <<>>
    /\ Head(toClient[c]).type = "direct"
    /\ Head(toClient[c]).payload.type = "key_exchange"
    /\ LET envelope == Head(toClient[c])
       IN /\ sessionKey' = [sessionKey EXCEPT ![c] =
                              KeyExchangeSessionKey(c, @, envelope)]
          /\ targetUser' = [targetUser EXCEPT ![c] =
                              KeyExchangeTarget(c, @, connectedUsers[c], envelope)]
          /\ lastLog' = [lastLog EXCEPT ![c] =
                           IF DecryptThrows(envelope.payload.encryptedKey,
                                            PrivateKeyOf(c))
                           THEN "FAIL" ELSE "SUCCESS"]
    /\ toClient' = [toClient EXCEPT ![c] = Tail(@)]
    /\ UNCHANGED <<relayClients, relayKey, opened, connectedUsers, keysGenerated>>
    /\ UNCHANGED <<replayVars, caVars, authVars, extVars>>

\* number of AES keys generated by all clients together
TotalKeys == keysGenerated["A"] + keysGenerated["B"] + keysGenerated["C"]

\* variant: only a target that is not in the list is refused
ConnectRefusesUnknown(user) == user = NoUser

\* rl.on('line'), command connect: !user || !user.publicKey
ConnectRefuses(user) == user = NoUser \/ user.publicKey = NoPub

\* rl.on('line'), command connect <targetId>, target known with a public key
Connect(c, targetId) ==
    /\ opened[c]
    /\ TotalKeys < MaxKeys
    /\ LET user == FindUser(connectedUsers[c], targetId)
           newSessionKey == generateAESKey(c, keysGenerated[c] + 1)
       IN /\ ~ConnectRefuses(user)
          /\ keysGenerated' = [keysGenerated EXCEPT ![c] = @ + 1]
          /\ sessionKey' = [sessionKey EXCEPT ![c] = newSessionKey]
          /\ targetUser' = [targetUser EXCEPT ![c] = user]
          /\ toClient' = RelayDirectSend(toClient, relayClients, c,
                [type |-> "direct", targetId |-> user.id,
                 payload |-> [type |-> "key_exchange",
                              encryptedKey |->
                                encryptAESKeyWithRSA(newSessionKey, user.publicKey)]])
    /\ UNCHANGED <<relayClients, relayKey, opened, connectedUsers, lastLog>>
    /\ UNCHANGED <<replayVars, caVars, authVars, extVars>>

\* rl.on('line'), command connect <targetId>, target unknown or without key:
\* 'User not found or has no public key.', nothing sent, nothing assigned
ConnectRefused(c) ==
    /\ opened[c]
    /\ \E targetId \in Clients :
          ConnectRefuses(FindUser(connectedUsers[c], targetId))
    /\ UNCHANGED <<relayClients, relayKey, toClient, opened,
                   connectedUsers, targetUser, sessionKey, lastLog, keysGenerated>>
    /\ UNCHANGED <<replayVars, caVars, authVars, extVars>>

\* the data of a key_exchange frame is damaged on its way to the client
Corrupt(c) ==
    /\ toClient[c] # <<>>
    /\ Head(toClient[c]).type = "direct"
    /\ Head(toClient[c]).payload.type = "key_exchange"
    /\ FromBase64(Head(toClient[c]).payload.encryptedKey).intact
    /\ toClient' = [toClient EXCEPT ![c][1].payload.encryptedKey =
                      ToBase64([FromBase64(@) EXCEPT !.intact = FALSE])]
    /\ UNCHANGED <<relayClients, relayKey, opened, connectedUsers,
                   targetUser, sessionKey, lastLog, keysGenerated>>
    /\ UNCHANGED <<replayVars, caVars, authVars, extVars>>

\* ws.on('message'), msg.type === 'error': the message is printed
ClientError(c) ==
    /\ opened[c]
    /\ toClient[c] # <<>>
    /\ Head(toClient[c]).type = "error"
    /\ lastLog' = [lastLog EXCEPT ![c] = "ERROR"]
    /\ toClient' = [toClient EXCEPT ![c] = Tail(@)]
    /\ UNCHANGED <<relayClients, relayKey, opened, connectedUsers,
                   targetUser, sessionKey, keysGenerated>>
    /\ UNCHANGED <<replayVars, caVars, authVars, extVars>>

\* relay, ws.on('close') of the connection of a registered client c: the
\* connection leaves `clients` and the others get the new user list; the
\* client process is gone and handles nothing any more
ServerClose(c) ==
    /\ c \in relayClients
    /\ opened[c]
    /\ relayClients' = relayClients \ {c}
    /\ toClient' = SendAll([toClient EXCEPT ![c] = <<>>], relayClients \ {c},
                           [type |-> "user_list",
                            users |-> getUserList(relayClients \ {c}, relayKey)])
    /\ UNCHANGED <<relayKey, opened, connectedUsers, targetUser,
                   sessionKey, lastLog, keysGenerated>>
    /\ UNCHANGED <<replayVars, caVars, authVars, extVars>>

\* rl.on('line'), command list, and the relay's msg.type === 'list':
\* sendUserList(ws)
ClientList(c) ==
    /\ opened[c]
    /\ c \in relayClients
    /\ used.lists < MaxLists
    /\ used' = [used EXCEPT !.lists = @ + 1]
    /\ toClient' = SendAll(toClient, {c},
                           [type |-> "user_list",
                            users |-> getUserList(relayClients, relayKey)])
    /\ UNCHANGED <<relayClients, relayKey, opened, connectedUsers, targetUser,
                   sessionKey, lastLog, keysGenerated>>
    /\ UNCHANGED <<authClients, relayCert, toAuth, relayIn, stage, caRootKey,
                   myCertificate, authUsers, authTarget, authKey, authLog,
                   verifiedIds>>
    /\ UNCHANGED <<replayVars, caVars, extVars>>

\* rl.on('line'), command msg: refused when !targetUser || !sessionKey
MsgRefused(c) == targetUser[c] = NoUser \/ sessionKey[c] = NoKey

\* the texts typed after msg
Texts == {"m1", "m2"}

\* variant: the text is encrypted under a key drawn for the message
ChatFrameOwnKey(target, key, text, iv) ==
    [type |-> "direct", targetId |-> target.id,
     payload |-> [type |-> "chat",
                  content |-> encryptMessageAES(text, generateAESKey("msg", iv), iv)]]

\* rl.on('line'), command msg: the frame handed to ws.send
ChatFrame(target, key, text, iv) ==
    [type |-> "direct", targetId |-> target.id,
     payload |-> [type |-> "chat", content |-> encryptMessageAES(text, key, iv)]]

\* rl.on('line'), command msg <text> with a session: the text is encrypted
\* under sessionKey and sent to targetUser.id
ClientMsg(c, text) ==
    /\ opened[c]
    /\ c \in relayClients
    /\ ~MsgRefused(c)
    /\ sent < MaxSent
    /\ text = IF sent = 0 THEN "m1" ELSE "m2"
    /\ sent' = sent + 1
    /\ toClient' = RelayDirectSend(toClient, relayClients, c,
                                  ChatFrame(targetUser[c], sessionKey[c], text, sent + 1))
    /\ UNCHANGED <<relayClients, relayKey, opened, connectedUsers, targetUser,
                   sessionKey, lastLog, keysGenerated>>
    /\ UNCHANGED <<aesCall, shown, authShown, caHeld, caRootSent, bootSent>>
    /\ UNCHANGED <<wsId, clients, readyState, userLists, webVars>>
    /\ UNCHANGED <<replayVars, caVars, authVars>>

\* variant: every chat is displayed, decrypted or not
ChatShownAlways(c, old, key, envelope) ==
    Append(old, [senderId |-> envelope.senderId,
                 text |-> Utf8Decode(FromBase64(envelope.payload.content.encrypted).gcm)])

\* handleDirectMessage, payload.type === 'chat': what has been displayed as
\* [SECURE] afterwards
ChatShown(c, old, key, envelope) ==
    IF key = NoKey \/ DecryptMessageThrows(envelope.payload.content, key)
    THEN old
    ELSE Append(old, [senderId |-> envelope.senderId,
                      text |-> decryptMessageAES(envelope.payload.content, key)])

\* handleDirectMessage, payload.type === 'chat': the line printed
ChatLog(key, envelope) ==
    IF key = NoKey THEN "ENCRYPTED"
    ELSE IF DecryptMessageThrows(envelope.payload.content, key)
         THEN "DECRYPT FAIL" ELSE "SECURE"

\* ws.on('message'), msg.type === 'direct', payload.type === 'chat'
ClientChat(c) ==
    /\ opened[c]
    /\ toClient[c] # <<>>
    /\ Head(toClient[c]).type = "direct"
    /\ Head(toClient[c]).payload.type = "chat"
    /\ shown' = [shown EXCEPT ![c] = ChatShown(c, @, sessionKey[c], Head(toClient[c]))]
    /\ lastLog' = [lastLog EXCEPT ![c] = ChatLog(sessionKey[c], Head(toClient[c]))]
    /\ toClient' = [toClient EXCEPT ![c] = Tail(@)]
    /\ UNCHANGED <<relayClients, relayKey, opened, connectedUsers, targetUser,
                   sessionKey, keysGenerated>>
    /\ UNCHANGED <<aesCall, authShown, sent, caHeld, caRootSent, bootSent>>
    /\ UNCHANGED <<wsId, clients, readyState, userLists, webVars>>
    /\ UNCHANGED <<replayVars, caVars, authVars>>

\* two clients that connect to each other and chat
MsgNext ==
    \/ \E c \in {"A", "B"} : ServerConnection(c)
    \/ \E c \in {"A", "B"} : ClientOpen(c)
    \/ \E c \in {"A", "B"} : ClientUserList(c)
    \/ \E c \in {"A", "B"} : ClientKeyExchange(c)
    \/ \E c \in {"A", "B"}, t \in {"A", "B"} : Connect(c, t)
    \/ \E c \in {"A", "B"}, text \in Texts : ClientMsg(c, text)
    \/ \E c \in {"A", "B"} : ClientChat(c)

ChatNext ==
    \/ \E c \in Clients : ServerConnection(c)
    \/ \E c \in Clients : ClientOpen(c)
    \/ \E c \in Clients : ClientUserList(c)
    \/ \E c \in Clients : ClientKeyExchange(c)
    \/ \E c \in Clients, t \in Clients : Connect(c, t)
    \/ \E c \in Clients : ConnectRefused(c)
    \/ \E c \in Clients : Corrupt(c)

\* ------------------------------------------------------------------------
\* ReplayProtection.validate, check by check
\* ------------------------------------------------------------------------
\* variant: the boundary age windowMs counts as expired
TimestampExpiredAtBoundary(t, timestamp) == t - timestamp >= windowMs

\* Check 1: now - packet.timestamp > this.windowMs
TimestampExpired(t, timestamp) == t - timestamp > windowMs

\* Check 2: packet.timestamp > now + 5000
TimestampFromFuture(t, timestamp) == timestamp > t + clockSkewMs

\* Check 3: this.seenNonces.has(packet.nonce)
NonceSeen(seen, nonce) == nonce \in seen

\* A packet is the value JSON.parse returned.  A field that is missing is
\* missing from the record; a timestamp that is no number is kept as the
\* name of what it is (timestampIs), a nonce that is no string likewise
\* (nonceIs).  validate makes no check of either: it computes with what
\* it finds.

\* packet.timestamp is a number
TimestampIsNumber(packet) == "timestamp" \in DOMAIN packet

\* the value looked up in and added to this.seenNonces: packet.nonce,
\* which is undefined when the field is missing
NonceKey(packet) ==
    IF "nonce" \in DOMAIN packet THEN packet.nonce
    ELSE IF "nonceIs" \in DOMAIN packet THEN packet.nonceIs
    ELSE "undefined"

\* the value validate returns.  Check 1 for a timestamp that is no number:
\* now - undefined and now - "text" are NaN, and NaN > windowMs is false;
\* now - null is now, the milliseconds since 1970, which is more than the
\* window.  Check 2 is false for every timestamp that is no number
\* (undefined > n and "text" > n compare with NaN, null > n compares 0)
ValidateResult(t, seen, packet) ==
    IF TimestampIsNumber(packet)
    THEN IF TimestampExpired(t, packet.timestamp) THEN FALSE
         ELSE IF TimestampFromFuture(t, packet.timestamp) THEN FALSE
         ELSE IF NonceSeen(seen, NonceKey(packet)) THEN FALSE
         ELSE TRUE
    ELSE IF "timestampIs" \in DOMAIN packet /\ packet.timestampIs = "null" THEN FALSE
         ELSE IF NonceSeen(seen, NonceKey(packet)) THEN FALSE
         ELSE TRUE

\* variant: the nonce is not added on the accepting path
ValidateSeenForgets(t, seen, packet) == seen

\* variant: the nonce is added before the checks are made
ValidateSeenEager(t, seen, packet) == seen \cup {packet.nonce}

\* this.seenNonces after validate: add on the accepting path only
ValidateSeen(t, seen, packet) ==
    IF ValidateResult(t, seen, packet) THEN seen \cup {NonceKey(packet)} ELSE seen

\* variant: the delay is given in seconds, setTimeout(..., windowSeconds)
ValidateTimersSeconds(t, seen, tm, packet) ==
    IF ValidateResult(t, seen, packet)
    THEN tm \cup {[nonce |-> packet.nonce, due |-> t + windowSeconds]}
    ELSE tm

\* variant: no eviction is scheduled
ValidateTimersNone(t, seen, tm, packet) == tm

\* timers after validate: setTimeout(..., this.windowMs) on the accepting path
ValidateTimers(t, seen, tm, packet) ==
    IF ValidateResult(t, seen, packet)
    THEN tm \cup {[nonce |-> NonceKey(packet), due |-> t + windowMs]}
    ELSE tm

NoAccept == [nonce |-> "none", timestamp |-> NoTime, at |-> NoTime]
NoBatch == [size |-> 0, start |-> 0, accepts |-> 0, timely |-> FALSE]

ReplayInit ==
    /\ now = 0
    /\ seenNonces = {}
    /\ timers = {}
    /\ inflight = <<>>
    /\ result = "none"
    /\ tracked = NoAccept
    /\ batch = NoBatch

\* Date.now() advances
Advance(d) ==
    /\ now < MaxNow + windowMs
    /\ now' = now + d
    /\ UNCHANGED <<seenNonces, timers, inflight, result, tracked, batch>>
    /\ UNCHANGED <<chatVars, caVars, authVars, extVars>>

\* copies of one packet arrive together (duplicate relays, retries)
Submit(nonce, timestamp, copies) ==
    /\ inflight = <<>>
    /\ now <= MaxNow
    /\ inflight' = [i \in 1..copies |-> [nonce |-> nonce, timestamp |-> timestamp]]
    /\ batch' = [size |-> copies, start |-> now, accepts |-> 0,
                 timely |-> ~NonceSeen(seenNonces, nonce)]
    /\ UNCHANGED <<now, seenNonces, timers, result, tracked>>
    /\ UNCHANGED <<chatVars, caVars, authVars, extVars>>

\* a packet captured when it was accepted is sent again
Resubmit(copies) ==
    /\ tracked # NoAccept
    /\ Submit(tracked.nonce, tracked.timestamp, copies)

\* one call of validate(packet), run to completion
Validate ==
    /\ inflight # <<>>
    /\ now <= MaxNow
    /\ LET packet == Head(inflight)
           res == ValidateResult(now, seenNonces, packet)
           acc == [nonce |-> packet.nonce, timestamp |-> packet.timestamp, at |-> now]
           done == Len(inflight) = 1
       IN /\ seenNonces' = ValidateSeen(now, seenNonces, packet)
          /\ timers' = ValidateTimers(now, seenNonces, timers, packet)
          /\ inflight' = Tail(inflight)
          /\ result' = IF res THEN "true" ELSE "false"
          \* history: the latest acceptance of the tracked nonce is tracked;
          \* an acceptance of another nonce may take its place
          /\ tracked' \in IF ~res THEN {tracked}
                          ELSE IF tracked.nonce = packet.nonce \/ tracked = NoAccept
                               THEN {acc}
                               ELSE {tracked, acc}
          /\ batch' = [batch EXCEPT
                         !.accepts = IF res THEN @ + 1 ELSE @,
                         !.start = IF done THEN 0 ELSE @,
                         !.timely = @ /\ now - batch.start < windowMs
                                      /\ now - packet.timestamp <= windowMs
                                      /\ packet.timestamp <= now + clockSkewMs]
    /\ UNCHANGED now
    /\ UNCHANGED <<chatVars, caVars, authVars, extVars>>

\* the callback of setTimeout(() => this.seenNonces.delete(packet.nonce), windowMs)
\* runs once its delay has elapsed, at the event loop's next opportunity
TimerFire(tm) ==
    /\ tm \in timers
    /\ now >= tm.due
    /\ seenNonces' = seenNonces \ {tm.nonce}
    /\ timers' = timers \ {tm}
    /\ UNCHANGED <<now, inflight, result, tracked, batch>>
    /\ UNCHANGED <<chatVars, caVars, authVars, extVars>>

ReplayNext ==
    \/ \E d \in ClockSteps : Advance(d)
    \/ \E n \in Nonces, off \in Offsets, k \in 1..MaxCopies : Submit(n, now + off, k)
    \/ \E k \in 1..MaxCopies : Resubmit(k)
    \/ Validate
    \/ \E tm \in timers : TimerFire(tm)

\* ------------------------------------------------------------------------
\* Phase 5: relay with certificates and client (src/src/05_auth/
\* crypto-utils.ts).  As in Phase 3 a frame a connection sends is handled by
\* the relay in the same step.
\* ------------------------------------------------------------------------
\* the relay's connection ids: "p" and "q" run the client, "r" is a peer
\* that sends frames of its own making
AuthHonest == {"p", "q"}
Rogue == "r"
AuthIds == AuthHonest \cup {Rogue}

\* 'User-' + Math.random().toString(36).substring(7): the user id a client
\* asks the CA to certify; it is not the id the relay gives the connection
UserIdOf(c) == "User-" \o c

\* JSON.parse of a number literal gives the nearest double, and
\* JSON.stringify writes that double
DoubleOf(literal) ==
    IF literal = "9007199254740993" THEN "9007199254740992" ELSE literal

\* a value of a payload field after JSON.parse and JSON.stringify; a number
\* literal is [number |-> its digits]
JsonValue(v) ==
    IF DOMAIN v = {"number"} THEN [number |-> DoubleOf(v.number)] ELSE v

\* msg.payload as the relay writes it into the frame it forwards
JsonPayload(payload) ==
    [f \in DOMAIN payload |->
        IF f = "type" THEN payload[f] ELSE JsonValue(payload[f])]

\* Phase 5 getUserList()
AuthUserList(ids, certs) == {[id |-> i, hasCert |-> certs[i] # NoCert] : i \in ids}

\* variant: a connection's first certificate is kept
RelayAuthCertFirst(certs, c, msg) ==
    IF msg.type = "register_with_cert" /\ certs[c] = NoCert
    THEN [certs EXCEPT ![c] = msg.payload]
    ELSE certs

\* relay, ws.on('message'): ws.certificate after the frame
RelayAuthCert(certs, c, msg) ==
    IF msg.type = "register_with_cert"
    THEN [certs EXCEPT ![c] = msg.payload]
    ELSE certs

\* relay, ws.on('message'): the frames sent while handling msg from c
RelayAuthSend(queues, ids, certs, c, msg) ==
    CASE msg.type = "register_with_cert" ->
           SendAll(queues, ids,
                   [type |-> "user_list",
                    users |-> AuthUserList(ids, RelayAuthCert(certs, c, msg))])
      [] msg.type = "list" ->
           SendAll(queues, {c},
                   [type |-> "user_list", users |-> AuthUserList(ids, certs)])
      [] msg.type = "direct" ->
           IF msg.targetId \in ids
           THEN SendAll(queues, {msg.targetId},
                        [type |-> "direct", senderId |-> c,
                         payload |-> JsonPayload(msg.payload)])
           ELSE queues
      [] msg.type = "get_cert" ->
           IF msg.targetId \in ids /\ certs[msg.targetId] # NoCert
           THEN SendAll(queues, {c},
                        [type |-> "cert_response", targetId |-> msg.targetId,
                         certificate |-> certs[msg.targetId]])
           ELSE queues

NoFrame == [from |-> "none", msg |-> [type |-> "none"]]
\* commands typed, frames and certificates the peer "r" has sent, keys drawn
NoUsed == [connect |-> 0, msg |-> 0, rogue |-> 0, registers |-> 0, keys |-> 0,
           chats |-> 0, lists |-> 0]

AuthInit ==
    /\ authClients = {}
    /\ relayCert = [c \in AuthIds |-> NoCert]
    /\ toAuth = [c \in AuthIds |-> <<>>]
    /\ relayIn = NoFrame
    /\ stage = [c \in AuthIds |-> IF c = Rogue THEN "cert" ELSE "new"]
    /\ caRootKey = [c \in AuthIds |-> "null"]
    /\ myCertificate = [c \in AuthIds |-> NoCert]
    /\ authUsers = [c \in AuthIds |-> {}]
    /\ authTarget = [c \in AuthIds |-> NoUser]
    /\ authKey = [c \in AuthIds |-> NoKey]
    /\ authLog = [c \in AuthIds |-> "none"]
    /\ verifiedIds = [c \in AuthIds |-> {}]
    /\ used = NoUsed

\* The exchange of a client with the CA touches nothing but that client, so
\* the clients are taken through it one after the other, "p" first, and no
\* connection to the relay is made halfway through one; "p" also is the
\* first of the two clients to connect.
StartsBefore(c) == c = "q" => stage["p"] \notin {"new", "start", "root"}

\* the peer "r" takes every frame as it arrives
Taken(queues) == [queues EXCEPT ![Rogue] = <<>>]

\* the relay handles msg from connection c
RelayHandles(c, msg) ==
    /\ relayCert' = RelayAuthCert(relayCert, c, msg)
    /\ relayIn' = [from |-> c, msg |-> msg]

\* caWs.on('open'): get_root_key is sent to the CA
ClientCaOpen(c) ==
    /\ c \in AuthHonest
    /\ stage[c] = "new"
    /\ StartsBefore(c)
    /\ stage' = [stage EXCEPT ![c] = "start"]
    /\ bootSent' = [bootSent EXCEPT ![c] = Append(@, "get_root_key")]
    /\ UNCHANGED <<wsId, clients, readyState, userLists, webVars>>
    /\ relayIn' = NoFrame
    /\ UNCHANGED <<authClients, relayCert, toAuth, caRootKey, myCertificate,
                   authUsers, authTarget, authKey, authLog, verifiedIds, used>>
    /\ UNCHANGED <<aesCall, shown, authShown, sent, caHeld, caRootSent>>
    /\ UNCHANGED <<replayVars, chatVars, caVars>>

\* variant: the chat client is started as soon as the root key is there
StageAfterEager(msgType) == "cert"

\* caWs.on('message'): where the client stands after a frame of the CA;
\* startChatClient() is called in the certificate_issued branch only
StageAfter(msgType) ==
    IF msgType = "root_key" THEN "root" ELSE "cert"

\* caWs.on('message'), root_key (the answer of the CA to get_root_key): the
\* root key is kept and the sign_request is sent
ClientRootKey(c) ==
    /\ c \in AuthHonest
    /\ stage[c] = "start"
    /\ stage' = [stage EXCEPT ![c] = StageAfter("root_key")]
    /\ caRootKey' = [caRootKey EXCEPT ![c] = CaRootKey]
    /\ bootSent' = [bootSent EXCEPT ![c] = Append(@, "sign_request")]
    /\ UNCHANGED <<wsId, clients, readyState, userLists, webVars>>
    /\ relayIn' = NoFrame
    /\ UNCHANGED <<authClients, relayCert, toAuth, myCertificate, authUsers,
                   authTarget, authKey, authLog, verifiedIds, used>>
    /\ UNCHANGED <<aesCall, shown, authShown, sent, caHeld, caRootSent>>
    /\ UNCHANGED <<replayVars, chatVars, caVars>>

\* caWs.on('message'), certificate_issued (the answer of the CA to the
\* sign_request): the certificate is kept and startChatClient() runs
ClientCertificateIssued(c) ==
    /\ c \in AuthHonest
    /\ stage[c] = "root"
    /\ stage' = [stage EXCEPT ![c] = StageAfter("certificate_issued")]
    /\ myCertificate' = [myCertificate EXCEPT ![c] =
          CaCertificate([userId |-> UserIdOf(c), userPublicKey |-> PublicKeyOf(c)])]
    /\ relayIn' = NoFrame
    /\ UNCHANGED <<authClients, relayCert, toAuth, caRootKey, authUsers,
                   authTarget, authKey, authLog, verifiedIds, used>>
    /\ UNCHANGED <<replayVars, chatVars, caVars, extVars>>

\* startChatClient(), new WebSocket, and Phase 5 wss.on('connection'): the
\* connection enters `clients`
AuthConnection(c) ==
    /\ stage[c] = "cert"
    /\ \A h \in AuthHonest : stage[h] # "root"
    /\ c = "q" => stage["p"] # "cert"
    /\ stage' = [stage EXCEPT ![c] = "connected"]
    /\ authClients' = authClients \cup {c}
    /\ bootSent' = [bootSent EXCEPT ![c] = Append(@, "chat connection")]
    /\ UNCHANGED <<wsId, clients, readyState, userLists, webVars>>
    /\ relayIn' = NoFrame
    /\ UNCHANGED <<relayCert, toAuth, caRootKey, myCertificate, authUsers,
                   authTarget, authKey, authLog, verifiedIds, used>>
    /\ UNCHANGED <<aesCall, shown, authShown, sent, caHeld, caRootSent>>
    /\ UNCHANGED <<replayVars, chatVars, caVars>>

\* ws.on('open'): register_with_cert with myCertificate
AuthOpen(c) ==
    /\ c \in AuthHonest
    /\ stage[c] = "connected"
    /\ stage' = [stage EXCEPT ![c] = "open"]
    /\ bootSent' = [bootSent EXCEPT ![c] = Append(@, "register_with_cert")]
    /\ UNCHANGED <<wsId, clients, readyState, userLists, webVars>>
    /\ LET msg == [type |-> "register_with_cert", payload |-> myCertificate[c]]
       IN /\ RelayHandles(c, msg)
          /\ toAuth' = Taken(RelayAuthSend(toAuth, authClients, relayCert, c, msg))
    /\ UNCHANGED <<authClients, caRootKey, myCertificate, authUsers,
                   authTarget, authKey, authLog, verifiedIds, used>>
    /\ UNCHANGED <<aesCall, shown, authShown, sent, caHeld, caRootSent>>
    /\ UNCHANGED <<replayVars, chatVars, caVars>>

\* ws.on('message'), msg.type === 'user_list'
AuthUserListFrame(c) ==
    /\ stage[c] = "open"
    /\ toAuth[c] # <<>>
    /\ Head(toAuth[c]).type = "user_list"
    /\ authUsers' = [authUsers EXCEPT ![c] = Head(toAuth[c]).users]
    /\ toAuth' = [toAuth EXCEPT ![c] = Tail(@)]
    /\ relayIn' = NoFrame
    /\ UNCHANGED <<authClients, relayCert, stage, caRootKey, myCertificate,
                   authTarget, authKey, authLog, verifiedIds, used>>
    /\ UNCHANGED <<replayVars, chatVars, caVars, extVars>>

\* createSecurePacket(payload), with the clock reading and the random nonce
createSecurePacket(payload, t, nonce) ==
    [timestamp |-> t, nonce |-> nonce, payload |-> payload]

\* rl.on('line'), command connect <targetId>: get_cert is sent
AuthConnectCmd(c, targetId) ==
    /\ c \in AuthHonest
    /\ stage[c] = "open"
    /\ used.connect < MaxConnects
    /\ used' = [used EXCEPT !.connect = @ + 1]
    /\ LET msg == [type |-> "get_cert", targetId |-> targetId]
       IN /\ RelayHandles(c, msg)
          /\ toAuth' = Taken(RelayAuthSend(toAuth, authClients, relayCert, c, msg))
    /\ UNCHANGED <<authClients, stage, caRootKey, myCertificate, authUsers,
                   authTarget, authKey, authLog, verifiedIds>>
    /\ UNCHANGED <<replayVars, chatVars, caVars, extVars>>

\* handleCertResponse: sessionKey afterwards
CertResponseKey(old, cert, rootKey, newSessionKey) ==
    IF VerifyOutcome(cert, rootKey) = "true" THEN newSessionKey ELSE old

\* variant: the target is set before the certificate is checked
CertResponseTargetUnchecked(old, cert, rootKey) ==
    [id |-> Field(cert, "userId"), publicKey |-> Field(cert, "publicKey")]

\* handleCertResponse: targetUser afterwards
CertResponseTarget(old, cert, rootKey) ==
    IF VerifyOutcome(cert, rootKey) = "true"
    THEN [id |-> cert.userId, publicKey |-> cert.publicKey]
    ELSE old

\* handleCertResponse: the key_exchange frame sent for a valid certificate
CertResponseFrame(cert, newSessionKey) ==
    [type |-> "direct", targetId |-> cert.userId,
     payload |-> [type |-> "key_exchange",
                  encryptedKey |-> encryptAESKeyWithRSA(newSessionKey,
                                                        cert.publicKey)]]

\* ws.on('message'), msg.type === 'cert_response': handleCertResponse; a
\* TypeError of the verify line is caught and printed by the message handler
AuthCertResponse(c) ==
    /\ stage[c] = "open"
    /\ toAuth[c] # <<>>
    /\ Head(toAuth[c]).type = "cert_response"
    /\ LET cert == Head(toAuth[c]).certificate
           outcome == VerifyOutcome(cert, caRootKey[c])
           newSessionKey == generateAESKey(c, used.keys + 1)
           rest == [toAuth EXCEPT ![c] = Tail(@)]
       IN /\ authKey' = [authKey EXCEPT ![c] =
                            CertResponseKey(@, cert, caRootKey[c], newSessionKey)]
          /\ authTarget' = [authTarget EXCEPT ![c] =
                               CertResponseTarget(@, cert, caRootKey[c])]
          /\ authLog' = [authLog EXCEPT ![c] =
                            CASE outcome = "true" -> "VALID"
                              [] outcome = "false" -> "INVALID"
                              [] outcome = "throws" -> "TypeError"]
          /\ IF outcome = "true"
             THEN /\ RelayHandles(c, CertResponseFrame(cert, newSessionKey))
                  /\ toAuth' = Taken(RelayAuthSend(rest, authClients, relayCert, c,
                                             CertResponseFrame(cert, newSessionKey)))
                  /\ verifiedIds' = [verifiedIds EXCEPT ![c] = @ \cup {cert.userId}]
                  /\ used' = [used EXCEPT !.keys = @ + 1]
             ELSE /\ relayIn' = NoFrame
                  /\ toAuth' = rest
                  /\ UNCHANGED <<relayCert, verifiedIds, used>>
    /\ UNCHANGED <<authClients, stage, caRootKey, myCertificate, authUsers>>
    /\ UNCHANGED <<replayVars, chatVars, caVars, extVars>>

\* ws.on('message'), msg.type === 'direct', payload.type === 'key_exchange'
AuthKeyExchange(c) ==
    /\ stage[c] = "open"
    /\ toAuth[c] # <<>>
    /\ Head(toAuth[c]).type = "direct"
    /\ Head(toAuth[c]).payload.type = "key_exchange"
    /\ LET envelope == Head(toAuth[c])
           throws == DecryptThrows(envelope.payload.encryptedKey, PrivateKeyOf(c))
       IN /\ authKey' = [authKey EXCEPT ![c] =
                IF throws THEN @
                ELSE decryptAESKeyWithRSA(envelope.payload.encryptedKey,
                                          PrivateKeyOf(c))]
          /\ authTarget' = [authTarget EXCEPT ![c] =
                IF throws THEN @ ELSE [id |-> envelope.senderId, publicKey |-> ""]]
          /\ authLog' = [authLog EXCEPT ![c] =
                IF throws THEN "Decryption failed" ELSE "SUCCESS"]
    /\ toAuth' = [toAuth EXCEPT ![c] = Tail(@)]
    /\ relayIn' = NoFrame
    /\ UNCHANGED <<authClients, relayCert, stage, caRootKey, myCertificate,
                   authUsers, verifiedIds, used>>
    /\ UNCHANGED <<replayVars, chatVars, caVars, extVars>>

\* rl.on('line'), command msg, refused: 'No secure session.'
AuthMsgRefused(c) ==
    /\ c \in AuthHonest
    /\ stage[c] = "open"
    /\ authTarget[c] = NoUser \/ authKey[c] = NoKey
    /\ UNCHANGED <<replayVars, chatVars, caVars, authVars, extVars>>

\* createSecurePacket: the k-th nonce client c draws from randomBytes(16),
\* one no other party draws
MsgNonce(c, k) ==
    IF c = "p" THEN <<"p1", "p2", "p3", "p4">>[k] ELSE <<"q1", "q2", "q3", "q4">>[k]

\* rl.on('line'), command msg <text> with a session: the packet is
\* encrypted under sessionKey and sent to targetUser.id
AuthMsg(c) ==
    /\ c \in AuthHonest
    /\ stage[c] = "open"
    /\ used.msg < MaxMsgs
    /\ ~(authTarget[c] = NoUser \/ authKey[c] = NoKey)
    /\ used' = [used EXCEPT !.msg = @ + 1]
    /\ LET packet == createSecurePacket("text", now, MsgNonce(c, used.msg + 1))
           msg == [type |-> "direct", targetId |-> authTarget[c].id,
                   payload |-> [type |-> "chat",
                                content |-> encryptMessageAES(packet, authKey[c],
                                                              used.msg + 1)]]
       IN /\ RelayHandles(c, msg)
          /\ toAuth' = Taken(RelayAuthSend(toAuth, authClients, relayCert, c, msg))
    /\ UNCHANGED <<authClients, stage, caRootKey, myCertificate, authUsers,
                   authTarget, authKey, authLog, verifiedIds>>
    /\ UNCHANGED <<replayVars, chatVars, caVars, extVars>>

\* the certificates the peer "r" registers: one the CA issued for its
\* connection id and its key, that one signed by another key instead, and
\* that one without signature
RogueCert == CaCertificate([userId |-> Rogue, userPublicKey |-> PublicKeyOf(Rogue)])
ForgedCert ==
    [RogueCert EXCEPT !.signature =
        ToBase64(sign(contentToVerify(RogueCert), otherKeyPair.privateKey))]
UnsignedCert == [f \in DOMAIN RogueCert \ {"signature"} |-> RogueCert[f]]

\* the frames the peer "r" sends: it registers a certificate, and it sends
\* a client a key_exchange whose encryptedKey is a key wrapped under that
\* client's public key, or a number too large for a double; the senderId
\* it writes into the frame is not its own
RogueFrames ==
    {[type |-> "register_with_cert", payload |-> cert] :
        cert \in {RogueCert, ForgedCert, UnsignedCert}}
    \cup
    {[type |-> "direct", targetId |-> h, senderId |-> "q",
      payload |-> [type |-> "key_exchange",
                   encryptedKey |-> encryptAESKeyWithRSA(generateAESKey(Rogue, 0),
                                                         PublicKeyOf(h))]] :
        h \in AuthHonest}
    \cup
    {[type |-> "direct", targetId |-> "p", senderId |-> "q",
      payload |-> [type |-> "key_exchange",
                   encryptedKey |-> [number |-> "9007199254740993"]]]}

\* the relay handles a frame of the peer "r"
RogueSend(msg) ==
    /\ stage[Rogue] = "connected"
    /\ used.rogue < MaxRogue
    /\ used' = [used EXCEPT !.rogue = @ + 1,
                            !.registers = IF msg.type = "register_with_cert"
                                          THEN @ + 1 ELSE @]
    /\ RelayHandles(Rogue, msg)
    /\ toAuth' = Taken(RelayAuthSend(toAuth, authClients, relayCert, Rogue, msg))
    /\ UNCHANGED <<authClients, stage, caRootKey, myCertificate, authUsers,
                   authTarget, authKey, authLog, verifiedIds>>
    /\ UNCHANGED <<replayVars, chatVars, caVars, extVars>>

\* Phase 5 handleDirectMessage, payload.type === 'chat': what is printed;
\* nothing without a session key, 'Decrypt error' when decryptMessageAES
\* throws, else as replayProtection.validate(packet) decides
AuthChatOutcome(key, t, seen, envelope) ==
    IF key = NoKey THEN "none"
    ELSE IF DecryptMessageThrows(envelope.payload.content, key)
         THEN "Decrypt error"
         ELSE IF ValidateResult(t, seen,
                                decryptMessageAES(envelope.payload.content, key))
              THEN "SECURE" ELSE "REJECTED"

\* variant: the packet is displayed without asking the guard
AuthChatShownUnguarded(old, key, t, seen, envelope) ==
    IF AuthChatOutcome(key, t, seen, envelope) \in {"SECURE", "REJECTED"}
    THEN Append(old, [senderId |-> envelope.senderId,
                      packet |-> decryptMessageAES(envelope.payload.content, key)])
    ELSE old

\* variant: without a session key the content is displayed as it came
AuthChatShownKeyless(old, key, t, seen, envelope) ==
    IF key = NoKey
    THEN Append(old, [senderId |-> envelope.senderId,
                      packet |-> envelope.payload.content])
    ELSE IF AuthChatOutcome(key, t, seen, envelope) = "SECURE"
         THEN Append(old, [senderId |-> envelope.senderId,
                           packet |-> decryptMessageAES(envelope.payload.content, key)])
         ELSE old

\* Phase 5 handleDirectMessage, payload.type === 'chat': the packets
\* displayed as [SECURE] afterwards
AuthChatShown(old, key, t, seen, envelope) ==
    IF AuthChatOutcome(key, t, seen, envelope) = "SECURE"
    THEN Append(old, [senderId |-> envelope.senderId,
                      packet |-> decryptMessageAES(envelope.payload.content, key)])
    ELSE old

\* variant: a chat that is not displayed is reported to its sender
ChatReplyOnFailure(c, outcome, envelope) ==
    IF outcome = "SECURE" THEN NoFrame
    ELSE [from |-> c,
          msg |-> [type |-> "direct", targetId |-> envelope.senderId,
                   payload |-> [type |-> "error", message |-> outcome]]]

\* Phase 5 handleDirectMessage, payload.type === 'chat': the frame the
\* handler sends, which is none on every path
ChatReply(c, outcome, envelope) == NoFrame

\* ws.on('message'), msg.type === 'direct', payload.type === 'chat'; the
\* client's ReplayProtection is the guard of the model
AuthChat(c) ==
    /\ stage[c] = "open"
    /\ toAuth[c] # <<>>
    /\ Head(toAuth[c]).type = "direct"
    /\ Head(toAuth[c]).payload.type = "chat"
    /\ LET envelope == Head(toAuth[c])
           outcome == AuthChatOutcome(authKey[c], now, seenNonces, envelope)
           validated == outcome \in {"SECURE", "REJECTED"}
           packet == decryptMessageAES(envelope.payload.content, authKey[c])
       IN /\ authShown' = [authShown EXCEPT ![c] =
                AuthChatShown(@, authKey[c], now, seenNonces, envelope)]
          /\ authLog' = [authLog EXCEPT ![c] = IF outcome = "none" THEN @ ELSE outcome]
          /\ seenNonces' = IF validated THEN ValidateSeen(now, seenNonces, packet)
                           ELSE seenNonces
          /\ timers' = IF validated THEN ValidateTimers(now, seenNonces, timers, packet)
                       ELSE timers
          /\ result' = IF validated
                       THEN (IF outcome = "SECURE" THEN "true" ELSE "false")
                       ELSE result
          /\ relayIn' = ChatReply(c, outcome, envelope)
    /\ toAuth' = [toAuth EXCEPT ![c] = Tail(@)]
    /\ UNCHANGED <<authClients, relayCert, stage, caRootKey, myCertificate,
                   authUsers, authTarget, authKey, verifiedIds, used>>
    /\ UNCHANGED <<now, inflight, tracked, batch>>
    /\ UNCHANGED <<aesCall, shown, sent, caHeld, caRootSent, bootSent>>
    /\ UNCHANGED <<wsId, clients, readyState, userLists, webVars>>
    /\ UNCHANGED <<chatVars, caVars>>

\* the key the peer "r" wraps for a client
RogueKey == generateAESKey(Rogue, 0)

\* the chat frames the peer "r" sends to client "p": a packet stamped 0
\* under the key it has sent, which it sends again unchanged later, and a
\* packet under a key it has not sent
RogueChatFrames ==
    {[type |-> "direct", targetId |-> "p",
      payload |-> [type |-> "chat",
                   content |-> encryptMessageAES(createSecurePacket("hello", 0, "n1"),
                                                 key, 1)]] :
        key \in {RogueKey, generateAESKey(Rogue, 1)}}

\* packets of the peer "r" that lack a field or have one of another type:
\* no timestamp, a timestamp that is a text, one that is null, no nonce, a
\* nonce that is a number
MalformedPackets ==
    {[nonce |-> "n2", payload |-> "hello"],
     [timestampIs |-> "string", nonce |-> "n2", payload |-> "hello"],
     [timestampIs |-> "null", nonce |-> "n2", payload |-> "hello"],
     [timestamp |-> 0, payload |-> "hello"],
     [timestamp |-> 0, nonceIs |-> "number", payload |-> "hello"]}

\* the key_exchange frame of the peer "r" for client "p"
RogueKeyFrames ==
    {[type |-> "direct", targetId |-> "p",
      payload |-> [type |-> "key_exchange",
                   encryptedKey |-> encryptAESKeyWithRSA(RogueKey, PublicKeyOf("p"))]]}

\* the relay handles a chat frame of the peer "r", sent to a client that
\* is connected
RogueChat(msg) ==
    /\ stage[Rogue] = "connected"
    /\ msg.targetId \in authClients
    /\ used.chats < MaxChats
    /\ now <= MaxNow
    /\ used' = [used EXCEPT !.chats = @ + 1]
    /\ RelayHandles(Rogue, msg)
    /\ toAuth' = Taken(RelayAuthSend(toAuth, authClients, relayCert, Rogue, msg))
    /\ UNCHANGED <<authClients, stage, caRootKey, myCertificate, authUsers,
                   authTarget, authKey, authLog, verifiedIds>>
    /\ UNCHANGED <<replayVars, chatVars, caVars, extVars>>

\* ws.on('message') of client c behind a relay that is not trusted: the
\* relay hands the chat frame c has just sent back to c, as a frame of the
\* peer c addressed
RelayReflect(c) ==
    /\ c \in authClients
    /\ relayIn # NoFrame
    /\ relayIn.from = c
    /\ relayIn.msg.type = "direct"
    /\ relayIn.msg.payload.type = "chat"
    /\ toAuth' = [toAuth EXCEPT ![c] =
            Append(@, [type |-> "direct", senderId |-> relayIn.msg.targetId,
                       payload |-> relayIn.msg.payload])]
    /\ relayIn' = NoFrame
    /\ UNCHANGED <<authClients, relayCert, stage, caRootKey, myCertificate,
                   authUsers, authTarget, authKey, authLog, verifiedIds, used>>
    /\ UNCHANGED <<replayVars, chatVars, caVars, extVars>>

\* the client "p" receiving chat from the peer "r"
GuardedNext ==
    \/ ClientCaOpen("p")
    \/ ClientRootKey("p")
    \/ ClientCertificateIssued("p")
    \/ \E c \in {"p", Rogue} : AuthConnection(c)
    \/ AuthOpen("p")
    \/ AuthUserListFrame("p")
    \/ AuthKeyExchange("p")
    \/ AuthChat("p")
    \/ \E msg \in RogueKeyFrames : RogueSend(msg)
    \/ \E msg \in RogueChatFrames : RogueChat(msg)
    \/ \E d \in ClockSteps : Advance(d)
    \/ \E tm \in timers : TimerFire(tm)

\* the client "p" receiving from the peer "r" chat whose packets are not
\* well formed, sent under the key "r" has sent, all within one reading of
\* the clock
MalformedNext ==
    \/ ClientCaOpen("p")
    \/ ClientRootKey("p")
    \/ ClientCertificateIssued("p")
    \/ \E c \in {"p", Rogue} : AuthConnection(c)
    \/ AuthOpen("p")
    \/ AuthUserListFrame("p")
    \/ AuthKeyExchange("p")
    \/ AuthChat("p")
    \/ \E msg \in RogueKeyFrames : RogueSend(msg)
    \/ \E packet \in MalformedPackets :
          RogueChat([type |-> "direct", targetId |-> "p",
                     payload |-> [type |-> "chat",
                                  content |-> encryptMessageAES(packet, RogueKey, 2)]])

\* the client "p" in session with the peer "r" behind a relay that hands
\* p's chat back to p, all within one reading of the clock
ReflectNext ==
    \/ ClientCaOpen("p")
    \/ ClientRootKey("p")
    \/ ClientCertificateIssued("p")
    \/ \E c \in {"p", Rogue} : AuthConnection(c)
    \/ AuthOpen("p")
    \/ AuthUserListFrame("p")
    \/ AuthKeyExchange("p")
    \/ AuthMsg("p")
    \/ RelayReflect("p")
    \/ AuthChat("p")
    \/ \E msg \in RogueKeyFrames : RogueSend(msg)
    \/ \E msg \in RogueChatFrames : RogueChat(msg)

\* ------------------------------------------------------------------------
\* The relay's registry (src/src/03_encryption/server.ts, and the same
\* lines of the Phase 5 relay): connections and the ids drawn for them
\* ------------------------------------------------------------------------
\* Math.random().toString(36).substring(7): the values a draw may give
RandomIds == {"k3x9f", "p0q2m", "z7a1c"}

\* wss.on('connection') for the s-th connection made: ws.id is drawn and
\* clients.set(ws.id, ws); nothing is asked of `clients` before
RegistryConnection(s, id) ==
    /\ readyState[s] = "none"
    /\ \A t \in 1..MaxSockets : t < s => readyState[t] # "none"
    /\ wsId' = [wsId EXCEPT ![s] = id]
    /\ clients' = [k \in DOMAIN clients \cup {id} |-> IF k = id THEN s ELSE clients[k]]
    /\ readyState' = [readyState EXCEPT ![s] = "open"]
    /\ UNCHANGED userLists
    /\ UNCHANGED <<aesCall, shown, authShown, sent, caHeld, caRootSent, bootSent,
                   webVars>>
    /\ UNCHANGED <<replayVars, chatVars, caVars, authVars>>

\* ws.on('close'): clients.delete(ws.id), then broadcastUserList sends
\* user_list to every connection left in `clients`
RegistryClose(s) ==
    /\ readyState[s] = "open"
    /\ readyState' = [readyState EXCEPT ![s] = "closed"]
    /\ clients' = [k \in DOMAIN clients \ {wsId[s]} |-> clients[k]]
    /\ userLists' = [t \in 1..MaxSockets |->
            IF \E k \in DOMAIN clients' : clients'[k] = t
            THEN userLists[t] + 1 ELSE userLists[t]]
    /\ UNCHANGED wsId
    /\ UNCHANGED <<aesCall, shown, authShown, sent, caHeld, caRootSent, bootSent,
                   webVars>>
    /\ UNCHANGED <<replayVars, chatVars, caVars, authVars>>

RegistryNext ==
    \/ \E s \in 1..MaxSockets, id \in RandomIds : RegistryConnection(s, id)
    \/ \E s \in 1..MaxSockets : RegistryClose(s)

\* ------------------------------------------------------------------------
\* The browser client (src/unnamed/part_000), Phase 3 and later: its React
\* state, and the message handler its socket was given
\* ------------------------------------------------------------------------
\* the frames the relay delivers from the peer "S": a key_exchange with one
\* of two keys wrapped under the public key of the browser client "w", and
\* chat under such a key
WebFrames ==
    {[type |-> "direct", senderId |-> "S",
      payload |-> [type |-> "key_exchange",
                   encryptedKey |-> encryptAESKeyWithRSA(generateAESKey("S", k),
                                                         PublicKeyOf("w"))]] :
        k \in 1..2}
    \cup
    {[type |-> "direct", senderId |-> "S",
      payload |-> [type |-> "chat",
                   content |-> encryptMessageAES("hello", generateAESKey("S", k), 1)]] :
        k \in 1..2}

\* useEffect, crypto setup: generateRSAKeys resolves and setKeyPair(keys)
\* makes the connection effect run again.  The effect replaces the socket
\* by one whose onmessage calls the handleIncomingMessage of this render,
\* in which keyPair and _sessionKey are this render's; its setters take
\* effect in the next render
WebKeysGenerated ==
    /\ webKeyPair = "null"
    /\ webKeyPair' = "w"
    /\ webOnmessage' = [keyPair |-> "w", sessionKey |-> webSessionKey]
    /\ webMessages' = <<>>
    /\ webTargetUser' = "null"
    /\ webSessionKey' = NoKey
    /\ webInbox' = <<>>
    /\ UNCHANGED <<aesCall, shown, authShown, sent, caHeld, caRootSent, bootSent,
                   wsId, clients, readyState, userLists>>
    /\ UNCHANGED <<replayVars, chatVars, caVars, authVars>>

\* handleSettingsSave with another url: the connection effect runs again
WebSettingsSave ==
    /\ webKeyPair # "null"
    /\ webOnmessage' = [keyPair |-> webKeyPair, sessionKey |-> webSessionKey]
    /\ webMessages' = <<>>
    /\ webTargetUser' = "null"
    /\ webSessionKey' = NoKey
    /\ webInbox' = <<>>
    /\ UNCHANGED webKeyPair
    /\ UNCHANGED <<aesCall, shown, authShown, sent, caHeld, caRootSent, bootSent,
                   wsId, clients, readyState, userLists>>
    /\ UNCHANGED <<replayVars, chatVars, caVars, authVars>>

\* a frame of the peer arrives at the socket
WebReceive(frame) ==
    /\ Len(webInbox) < MaxWebInbox
    /\ frame.payload.type = "chat" =>
          Len(webMessages)
          + Cardinality({i \in DOMAIN webInbox : webInbox[i].payload.type = "chat"})
          < MaxWebChats
    /\ webInbox' = Append(webInbox, frame)
    /\ UNCHANGED <<webKeyPair, webSessionKey, webTargetUser, webOnmessage,
                   webMessages>>
    /\ UNCHANGED <<aesCall, shown, authShown, sent, caHeld, caRootSent, bootSent,
                   wsId, clients, readyState, userLists>>
    /\ UNCHANGED <<replayVars, chatVars, caVars, authVars>>

\* handleIncomingMessage, payload.type === 'key_exchange', as
\* socket.onmessage calls it: keyPair.raw throws a TypeError while the
\* handler's keyPair is null, which the catch logs
WebKeyExchange ==
    /\ webInbox # <<>>
    /\ Head(webInbox).payload.type = "key_exchange"
    /\ LET msg == Head(webInbox)
           throws == \/ webOnmessage.keyPair = "null"
                     \/ DecryptThrows(msg.payload.encryptedKey,
                                      PrivateKeyOf(webOnmessage.keyPair))
       IN /\ webTargetUser' = IF throws THEN webTargetUser ELSE msg.senderId
          /\ webSessionKey' =
                IF throws THEN webSessionKey
                ELSE decryptAESKeyWithRSA(msg.payload.encryptedKey,
                                          PrivateKeyOf(webOnmessage.keyPair))
    /\ webInbox' = Tail(webInbox)
    /\ UNCHANGED <<webKeyPair, webOnmessage, webMessages>>
    /\ UNCHANGED <<aesCall, shown, authShown, sent, caHeld, caRootSent, bootSent,
                   wsId, clients, readyState, userLists>>
    /\ UNCHANGED <<replayVars, chatVars, caVars, authVars>>

\* handleIncomingMessage, payload.type === 'chat', as socket.onmessage
\* calls it: the plaintext is added, or the failure text when the handler's
\* _sessionKey is null or decryptMessageAES throws
WebChat ==
    /\ webInbox # <<>>
    /\ Head(webInbox).payload.type = "chat"
    /\ LET msg == Head(webInbox)
           key == webOnmessage.sessionKey
       IN webMessages' =
             Append(webMessages,
                    [sender |-> msg.senderId,
                     text |-> IF key = NoKey
                                 \/ DecryptMessageThrows(msg.payload.content, key)
                              THEN "(Decryption Failed)"
                              ELSE decryptMessageAES(msg.payload.content, key)])
    /\ webInbox' = Tail(webInbox)
    /\ UNCHANGED <<webKeyPair, webSessionKey, webTargetUser, webOnmessage>>
    /\ UNCHANGED <<aesCall, shown, authShown, sent, caHeld, caRootSent, bootSent,
                   wsId, clients, readyState, userLists>>
    /\ UNCHANGED <<replayVars, chatVars, caVars, authVars>>

WebNext ==
    \/ WebKeysGenerated
    \/ WebSettingsSave
    \/ \E frame \in WebFrames : WebReceive(frame)
    \/ WebKeyExchange
    \/ WebChat

\* two clients
AuthNext ==
    \/ \E c \in AuthHonest : ClientCaOpen(c)
    \/ \E c \in AuthHonest : ClientRootKey(c)
    \/ \E c \in AuthHonest : ClientCertificateIssued(c)
    \/ \E c \in AuthHonest : AuthConnection(c)
    \/ \E c \in AuthHonest : AuthOpen(c)
    \/ \E c \in AuthHonest : AuthUserListFrame(c)
    \/ \E c \in AuthHonest, t \in AuthIds \cup {"nobody"} : AuthConnectCmd(c, t)
    \/ \E c \in AuthHonest : AuthCertResponse(c)
    \/ \E c \in AuthHonest : AuthMsgRefused(c)
    \/ \E c \in AuthHonest : AuthMsg(c)

\* the client "p" and the peer "r"
RogueNext ==
    \/ ClientCaOpen("p")
    \/ ClientRootKey("p")
    \/ ClientCertificateIssued("p")
    \/ \E c \in {"p", Rogue} : AuthConnection(c)
    \/ AuthOpen("p")
    \/ AuthUserListFrame("p")
    \/ \E t \in AuthIds \cup {"nobody"} : AuthConnectCmd("p", t)
    \/ AuthCertResponse("p")
    \/ AuthKeyExchange("p")
    \/ AuthMsgRefused("p")
    \/ AuthMsg("p")
    \/ \E msg \in RogueFrames : RogueSend(msg)

\* Phase 5 rl.on('line'), command list, and the relay's msg.type === 'list'
AuthListCmd(c) ==
    /\ c \in AuthHonest
    /\ stage[c] = "open"
    /\ used.lists < MaxLists
    /\ used' = [used EXCEPT !.lists = @ + 1]
    /\ LET msg == [type |-> "list"]
       IN /\ RelayHandles(c, msg)
          /\ toAuth' = Taken(RelayAuthSend(toAuth, authClients, relayCert, c, msg))
    /\ UNCHANGED <<authClients, stage, caRootKey, myCertificate, authUsers,
                   authTarget, authKey, authLog, verifiedIds>>
    /\ UNCHANGED <<replayVars, chatVars, caVars, extVars>>

\* Phase 5 relay, ws.on('close') of connection c: the connection leaves
\* `clients` and the others get the new user list; the peer is gone
AuthClose(c) ==
    /\ c \in authClients
    /\ stage[c] \in {"connected", "open"}
    /\ authClients' = authClients \ {c}
    /\ stage' = [stage EXCEPT ![c] = "closed"]
    /\ toAuth' = Taken(SendAll([toAuth EXCEPT ![c] = <<>>], authClients \ {c},
                              [type |-> "user_list",
                               users |-> AuthUserList(authClients \ {c}, relayCert)]))
    /\ relayIn' = NoFrame
    /\ UNCHANGED <<relayCert, caRootKey, myCertificate, authUsers, authTarget,
                   authKey, authLog, verifiedIds, used>>
    /\ UNCHANGED <<replayVars, chatVars, caVars, extVars>>

\* the user lists: two Phase 3 clients at their relay, and a Phase 5 client
\* and a peer at theirs, that connect, register, ask for the list and leave
ListNext ==
    \/ \E c \in {"A", "B"} : ServerConnection(c)
    \/ \E c \in {"A", "B"} : ClientOpen(c)
    \/ \E c \in {"A", "B"} : ClientUserList(c)
    \/ \E c \in {"A", "B"} : ClientList(c)
    \/ \E c \in {"A", "B"} : ServerClose(c)
    \/ ClientCaOpen("p")
    \/ ClientRootKey("p")
    \/ ClientCertificateIssued("p")
    \/ \E c \in {"p", Rogue} : AuthConnection(c)
    \/ AuthOpen("p")
    \/ AuthUserListFrame("p")
    \/ AuthListCmd("p")
    \/ \E c \in {"p", Rogue} : AuthClose(c)

\* the state after construction: a new guard, a relay without connections
\* and clients that have not connected
ExtInit ==
    /\ aesCall = NoAes
    /\ shown = [c \in Clients |-> <<>>]
    /\ authShown = [c \in AuthIds |-> <<>>]
    /\ sent = 0
    /\ caHeld = [r \in Requesters |-> NoHeld]
    /\ caRootSent = [r \in Requesters |-> "null"]
    /\ bootSent = [c \in AuthIds |-> <<>>]
    /\ wsId = [s \in 1..MaxSockets |-> "undefined"]
    /\ clients = [id \in {} |-> 0]
    /\ readyState = [s \in 1..MaxSockets |-> "none"]
    /\ userLists = [s \in 1..MaxSockets |-> 0]
    /\ webKeyPair = "null"
    /\ webSessionKey = NoKey
    /\ webTargetUser = "null"
    /\ webOnmessage = [keyPair |-> "null", sessionKey |-> NoKey]
    /\ webInbox = <<>>
    /\ webMessages = <<>>

Init == ReplayInit /\ ChatInit /\ CaInit /\ AuthInit /\ ExtInit

SpecReplay == Init /\ [][ReplayNext]_vars

\* the user lists of the Phase 3 and Phase 5 relays
SpecList == Init /\ [][ListNext]_vars

\* the relay and the clients; the replay guard is not used in Phase 3
SpecChat == Init /\ [][ChatNext]_vars

\* connect typed at a client whose connection is open
LiveConnect(c, targetId) ==
    /\ c \in relayClients
    /\ TotalKeys < MaxCloseKeys
    /\ Connect(c, targetId)

LiveConnectRefused(c) ==
    /\ c \in relayClients
    /\ ConnectRefused(c)

\* the relay and the clients, with clients that leave; a client that has
\* left runs no command
CloseNext ==
    \/ \E c \in Clients : ServerConnection(c)
    \/ \E c \in Clients : ClientOpen(c)
    \/ \E c \in Clients : ClientUserList(c)
    \/ \E c \in Clients : ClientKeyExchange(c)
    \/ \E c \in Clients : ClientError(c)
    \/ \E c \in Clients, t \in Clients : LiveConnect(c, t)
    \/ \E c \in Clients : LiveConnectRefused(c)
    \/ \E c \in Clients : ServerClose(c)

SpecClose == Init /\ [][CloseNext]_vars

\* the Phase 3 relay and two clients that chat
SpecMsg == Init /\ [][MsgNext]_vars

\* calls of encryptMessageAES and decryptMessageAES
SpecAES == Init /\ [][AesNext]_vars

\* the CA and a verifier of the certificates it issues
SpecCA == Init /\ [][CaNext]_vars

\* the Phase 5 relay and two clients
SpecAuth == Init /\ [][AuthNext]_vars

\* a Phase 5 client with its replay guard and a peer that sends it chat
SpecGuarded == Init /\ [][GuardedNext]_vars

\* the same with packets that lack fields
SpecMalformed == Init /\ [][MalformedNext]_vars

\* the Phase 5 client and a reflecting relay
SpecReflect == Init /\ [][ReflectNext]_vars

\* the relay's registry of connections
SpecRegistry == Init /\ [][RegistryNext]_vars

\* the browser client and its peer
SpecWeb == Init /\ [][WebNext]_vars

\* the Phase 5 relay, a client and a peer that sends frames of its own
SpecRogue == Init /\ [][RogueNext]_vars

\* the guard fed one packet at a time
ReplayNextSingle ==
    \/ \E d \in ClockSteps : Advance(d)
    \/ \E n \in Nonces, off \in Offsets : Submit(n, now + off, 1)
    \/ Resubmit(1)
    \/ Validate
    \/ \E tm \in timers : TimerFire(tm)

\* the event loop runs due timer callbacks, and time passes
SpecReplayLive ==
    /\ Init /\ [][ReplayNextSingle]_vars
    /\ WF_vars(\E d \in ClockSteps : Advance(d))
    /\ \A n \in Nonces : WF_vars(\E tm \in timers : tm.nonce = n /\ TimerFire(tm))

\* ------------------------------------------------------------------------
\* Claims about ReplayProtection
\* ------------------------------------------------------------------------
\* a step that is one call of validate, on the packet Head(inflight)
Validated == inflight # <<>> /\ inflight' = Tail(inflight)

\* C1: a packet (same nonce, same timestamp) that validate has accepted is
\* never accepted by a later validate call.
C1_AcceptedAtMostOnce ==
    [][(Validated /\ Head(inflight).nonce = tracked.nonce
                  /\ Head(inflight).timestamp = tracked.timestamp)
         => result' # "true"]_vars

\* C2: of several copies of a packet with an unseen nonce delivered together,
\* all validated while the timestamp is fresh and less than windowMs after
\* their delivery, exactly one is accepted and the others are rejected.
C2_ExactlyOneAccept ==
    /\ (batch.timely /\ batch.size >= 2) => batch.accepts <= 1
    /\ (batch.timely /\ batch.size >= 2 /\ Len(inflight) < batch.size)
          => batch.accepts = 1

C2_Witness ==
    /\ inflight = <<>>
    /\ batch.timely
    /\ batch.size >= 2
    /\ batch.accepts = 1
    /\ result = "false"

\* C3: validate returns true exactly when now - timestamp <= windowMs and
\* timestamp <= now + 5000 and the nonce is not recorded.
C3_ValidateIff ==
    [][Validated =>
         ((result' = "true") <=>
            (/\ now - Head(inflight).timestamp <= windowMs
             /\ Head(inflight).timestamp <= now + 5000
             /\ Head(inflight).nonce \notin seenNonces))]_vars

\* a packet exactly windowMs old has just been accepted
C3_Witness ==
    /\ result = "true"
    /\ tracked.at = now
    /\ tracked.at - tracked.timestamp = windowMs

\* C4: a validate call that returns false leaves the recorded nonces
\* unchanged and schedules no eviction timer.
C4_RejectHasNoEffect ==
    [][(Validated /\ result' = "false")
         => (seenNonces' = seenNonces /\ timers' = timers)]_vars

\* a rejected call on a guard that holds a nonce
C4_Witness ==
    /\ result = "false"
    /\ seenNonces # {}
    /\ batch.size >= 1
    /\ batch.accepts = 0
    /\ inflight = <<>>

\* C5: for windowMs after a nonce was accepted every validate call with that
\* nonce returns false, while an unseen nonce with a fresh timestamp is
\* accepted by a guard that holds other nonces.
C5_RejectedWithinWindow ==
    [][/\ (Validated /\ Head(inflight).nonce = tracked.nonce
                     /\ tracked.at <= now /\ now < tracked.at + windowMs)
            => result' = "false"
       /\ (Validated /\ seenNonces # {}
                     /\ Head(inflight).nonce \notin seenNonces
                     /\ now - Head(inflight).timestamp <= windowMs
                     /\ Head(inflight).timestamp <= now + clockSkewMs)
            => result' = "true"]_vars

\* the accepted packet was sent again twice, 20 s later: the first copy was
\* rejected, and a second nonce is recorded
C5_Witness ==
    /\ tracked # NoAccept
    /\ now = tracked.at + 20000
    /\ batch.size = 2
    /\ Len(inflight) = 1
    /\ Head(inflight).nonce = tracked.nonce
    /\ result = "false"
    /\ Cardinality(seenNonces) = 2

\* C6 as stated: a nonce is removed no later than windowMs after it was
\* recorded, so no recorded nonce was accepted more than windowMs ago.
C6_RemovedByExpiry ==
    tracked.nonce \in seenNonces => now - tracked.at <= windowMs

\* every recorded nonce has exactly one eviction timer, due windowMs after
\* the nonce was recorded
TimerPerNonce ==
    /\ seenNonces = {tm.nonce : tm \in timers}
    /\ \A t1, t2 \in timers : t1.nonce = t2.nonce => t1 = t2
    /\ tracked.nonce \in seenNonces
          => [nonce |-> tracked.nonce, due |-> tracked.at + windowMs] \in timers

\* C6 amended: every recorded nonce has exactly one eviction timer due
\* windowMs after it was recorded, is removed only by that timer, at or
\* after its due time, and is eventually removed.
C6_EvictedAfterWindow ==
    /\ []TimerPerNonce
    /\ [][\A n \in seenNonces : n \notin seenNonces'
             => \E tm \in timers : tm.nonce = n /\ now >= tm.due]_vars
    /\ \A n \in Nonces : (n \in seenNonces) ~> (n \notin seenNonces)

\* a recorded nonce whose timer is due but has not run yet
C6_Witness ==
    /\ tracked.nonce \in seenNonces
    /\ now > tracked.at + windowMs
    /\ [nonce |-> tracked.nonce, due |-> tracked.at + windowMs] \in timers

\* ------------------------------------------------------------------------
\* Claims about the handshake
\* ------------------------------------------------------------------------
\* a step in which client c handles the key_exchange frame Head(toClient[c])
KeyExchangeStep(c) ==
    /\ toClient[c] # <<>>
    /\ Head(toClient[c]).type = "direct"
    /\ Head(toClient[c]).payload.type = "key_exchange"
    /\ toClient'[c] = Tail(toClient[c])

\* a step in which client c runs connect for a known target
ConnectStep(c) == keysGenerated'[c] # keysGenerated[c]

\* the frames waiting for client c that are key_exchange frames from s
KeyExchangesInFlight(s, c) ==
    {i \in 1..Len(toClient[c]) :
        /\ toClient[c][i].type = "direct"
        /\ toClient[c][i].senderId = s
        /\ toClient[c][i].payload.type = "key_exchange"}

\* C7: connect makes the initiator hold the fresh key K and puts one frame
\* for the target, from the initiator, wrapping K under the target's public
\* key, on its way; a client that handles such a frame as it was sent then
\* holds K and has the initiator as its target.
C7_HandshakeDelivers ==
    [][\A c \in Clients :
        /\ ConnectStep(c) =>
             LET t == targetUser'[c].id
                 frame == toClient'[t][Len(toClient'[t])]
             IN /\ sessionKey'[c] = generateAESKey(c, keysGenerated'[c])
                /\ Len(toClient'[t]) = Len(toClient[t]) + 1
                /\ frame.type = "direct"
                /\ frame.senderId = c
                /\ frame.payload.type = "key_exchange"
                /\ FromBase64(frame.payload.encryptedKey) =
                      [oaep |-> FromBase64(sessionKey'[c]),
                       key |-> PublicKeyOf(t), intact |-> TRUE]
        /\ (KeyExchangeStep(c)
              /\ FromBase64(Head(toClient[c]).payload.encryptedKey).intact) =>
             LET frame == Head(toClient[c])
             IN /\ sessionKey'[c] =
                      ToBase64(FromBase64(frame.payload.encryptedKey).oaep)
                /\ FromBase64(sessionKey'[c])[2] = frame.senderId
                /\ targetUser'[c].id = frame.senderId]_vars

\* A connected to B and B has handled the frame: both hold A's key
C7_Witness ==
    /\ keysGenerated = [c \in Clients |-> IF c = "A" THEN 1 ELSE 0]
    /\ sessionKey["A"] = generateAESKey("A", 1)
    /\ sessionKey["B"] = sessionKey["A"]
    /\ targetUser["A"].id = "B"
    /\ targetUser["B"].id = "A"
    /\ lastLog["B"] = "SUCCESS"
    /\ toClient["B"] = <<>>

\* C8: two clients that are each other's target, with no key_exchange frame
\* between them in flight and none of them lost to damage, hold the same
\* session key.
C8_SameKeyForPair ==
    \A a, b \in Clients :
        (/\ a # b
         /\ targetUser[a].id = b
         /\ targetUser[b].id = a
         /\ KeyExchangesInFlight(a, b) = {}
         /\ KeyExchangesInFlight(b, a) = {}
         /\ lastLog[a] # "FAIL"
         /\ lastLog[b] # "FAIL")
        => sessionKey[a] = sessionKey[b]

\* C9: the session key a client shares with peer b is left unchanged when
\* the client handles a key_exchange from a third peer or connects to a
\* third peer.
C9_KeyPerPeer ==
    [][\A c, b \in Clients :
        (/\ b # c
         /\ targetUser[c].id = b
         /\ sessionKey[c] # NoKey
         /\ \/ KeyExchangeStep(c) /\ Head(toClient[c]).senderId \notin {b, c}
            \/ ConnectStep(c) /\ targetUser'[c].id \notin {b, c})
        => sessionKey'[c] = sessionKey[c]]_vars

\* C10: handling a key_exchange whose unwrap fails (damaged ciphertext, or
\* wrapped under another key) leaves session key and target as they were.
C10_FailedUnwrapKeepsState ==
    [][\A c \in Clients :
        (/\ KeyExchangeStep(c)
         /\ LET ct == FromBase64(Head(toClient[c]).payload.encryptedKey)
            IN ~ct.intact \/ ct.key # PublicKeyOf(c))
        => (sessionKey'[c] = sessionKey[c] /\ targetUser'[c] = targetUser[c])]_vars

\* an Idle client has handled a damaged key_exchange and is still Idle
C10_Witness ==
    \E c \in Clients :
        /\ lastLog[c] = "FAIL"
        /\ sessionKey[c] = NoKey
        /\ targetUser[c] = NoUser
        /\ toClient[c] = <<>>

\* ------------------------------------------------------------------------
\* Claims about peers that leave
\* ------------------------------------------------------------------------
\* client b registered and its connection has closed
HasLeft(b) == opened[b] /\ b \notin relayClients

\* C11: once the peer a client has a session with has left and the client
\* has handled every frame the relay sent it (the user list without the peer
\* among them), the client is Idle: its session key is discarded and msg is
\* refused.
C11_PeerCloseEndsSession ==
    \A c \in relayClients, b \in Clients :
        (/\ targetUser[c].id = b
         /\ HasLeft(b)
         /\ toClient[c] = <<>>)
        => (sessionKey[c] = NoKey /\ MsgRefused(c))

\* ------------------------------------------------------------------------
\* Claims about certificates
\* ------------------------------------------------------------------------
\* a step in which client c handles the cert_response at the head of its
\* queue (no certificate names the connection id of a client, so the
\* handler sends nothing back to c)
CertResponseStep(c) ==
    /\ toAuth[c] # <<>>
    /\ Head(toAuth[c]).type = "cert_response"
    /\ toAuth'[c] = Tail(toAuth[c])

\* the certificate's signature is one over userId + publicKey under rootKey
SignatureVerifies(cert, rootKey) ==
    /\ "signature" \in DOMAIN cert
    /\ verify(Field(cert, "userId") \o Field(cert, "publicKey"), rootKey,
              FromBase64(cert.signature))

\* C12: a client that handles a cert_response whose certificate does not
\* verify over userId + publicKey under the CA root key it holds keeps its
\* session key and its target, generates no key and sends no frame; when it
\* does set a key and a target and sends a key_exchange, the certificate
\* verified.
C12_KeyOnlyForVerifiedCert ==
    [][\A c \in AuthHonest :
          CertResponseStep(c) =>
              LET cert == Head(toAuth[c]).certificate
              IN \/ SignatureVerifies(cert, caRootKey[c])
                 \/ /\ authKey'[c] = authKey[c]
                    /\ authTarget'[c] = authTarget[c]
                    /\ used'.keys = used.keys
                    /\ relayIn' = NoFrame]_vars

\* a client has handled a certificate that did not verify
C12_Witness ==
    \E c \in AuthHonest :
        /\ authLog[c] = "INVALID"
        /\ authKey[c] = NoKey
        /\ authTarget[c] = NoUser
        /\ toAuth[c] = <<>>

\* C13: every key_exchange and every chat frame a client sends is addressed
\* to a peer whose certificate that client has verified before.
C13_SecretsOnlyToVerifiedPeers ==
    [][\A c \in AuthHonest :
          (/\ relayIn'.from = c
           /\ relayIn'.msg.type = "direct"
           /\ relayIn'.msg.payload.type \in {"key_exchange", "chat"})
          => relayIn'.msg.targetId \in verifiedIds'[c]]_vars

\* C14: for a certificate that is malformed or does not match (signature
\* missing, fields missing, signature not made with the root key) the
\* verification in handleCertResponse gives false, which the client reports
\* as an invalid certificate, and it never throws; the client's session key
\* and target stay as they were.
C14_BadCertificateGivesFalse ==
    [][\A c \in AuthHonest :
          (/\ CertResponseStep(c)
           /\ ~SignatureVerifies(Head(toAuth[c]).certificate, caRootKey[c]))
          => /\ authLog'[c] = "INVALID"
             /\ authKey'[c] = authKey[c]
             /\ authTarget'[c] = authTarget[c]]_vars

\* C17: once client b has fetched the certificate client a registered, has
\* found it valid and has sent its key_exchange, that key_exchange is
\* delivered to a: it is in a's queue, or a has handled it and holds b's
\* key, under which the chat that follows is decrypted.
C17_KeyExchangeReachesPeer ==
    \A a \in AuthHonest, b \in AuthHonest :
        (/\ a # b
         /\ authLog[b] = "VALID"
         /\ authTarget[b] = [id |-> UserIdOf(a), publicKey |-> PublicKeyOf(a)]
         /\ authKey[b] # NoKey)
        => \/ authKey[a] = authKey[b]
           \/ \E i \in DOMAIN toAuth[a] :
                 /\ toAuth[a][i].type = "direct"
                 /\ toAuth[a][i].senderId = b
                 /\ toAuth[a][i].payload.type = "key_exchange"

\* C18: when the relay handles a direct frame from connection S whose
\* target is a connected client, exactly one frame is added to the target's
\* queue, it is direct with senderId S (the id the relay gave the
\* connection) and the payload of the frame received, unmodified, and no
\* other connection gets a frame.
C18_DirectForwardedUnmodified ==
    [][(/\ relayIn'.msg.type = "direct"
        /\ relayIn'.msg.targetId \in authClients \cap AuthHonest)
       => LET t == relayIn'.msg.targetId
          IN /\ toAuth'[t] = Append(toAuth[t],
                                    [type |-> "direct",
                                     senderId |-> relayIn'.from,
                                     payload |-> relayIn'.msg.payload])
             /\ \A o \in AuthIds \ {t} : Len(toAuth'[o]) <= Len(toAuth[o])]_vars

\* C19: when the relay handles a direct frame of a client whose target is
\* not a connected client, no other connection gets a frame and the last
\* frame in the sender's queue is the relay's error frame.
C19_UnknownTargetReported ==
    [][(/\ relayIn'.msg.type = "direct"
        /\ relayIn'.from \in AuthHonest
        /\ relayIn'.msg.targetId \notin authClients)
       => LET S == relayIn'.from
          IN /\ \A o \in AuthIds \ {S} : Len(toAuth'[o]) <= Len(toAuth[o])
             /\ toAuth'[S] # <<>>
             /\ toAuth'[S][Len(toAuth'[S])].type = "error"]_vars

\* C15: a certificate verified as the CA issued it is valid under the root
\* key the CA returns, whatever user id and public key were requested.
C15_IssuedVerifies ==
    (certCheck.outcome # "none" /\ certCheck.changed = {})
        => certCheck.outcome = "true"

C15_Witness ==
    /\ certCheck.outcome = "true"
    /\ certCheck.changed = {}
    /\ certCheck.cert = caIssued
    /\ Field(caIssued, "userId") = "User-12"
    /\ Field(caIssued, "publicKey") = "PEM"

\* C16 as stated: a certificate whose userId, publicKey or signature was
\* changed to a different value is verified as false.
C16_AnyChangeRejected ==
    certCheck.changed \in {{"userId"}, {"publicKey"}, {"signature"}}
        => certCheck.outcome = "false"

\* C16: a certificate whose userId or publicKey was changed to a different
\* value is verified as false; one whose signature text was changed is
\* verified as false when the new text decodes to other bytes, and as true
\* when it decodes to the same bytes.
C16_ChangeRejected ==
    /\ certCheck.changed \in {{"userId"}, {"publicKey"}}
          => certCheck.outcome = "false"
    /\ certCheck.changed = {"signature"}
          => /\ certCheck.cert.signature # caIssued.signature
             /\ certCheck.outcome =
                   (IF FromBase64(certCheck.cert.signature) =
                       FromBase64(caIssued.signature)
                    THEN "true" ELSE "false")

C16_Witness ==
    /\ certCheck.changed = {"userId"}
    /\ caIssued.userId = "User-12"
    /\ certCheck.cert = [caIssued EXCEPT !.userId = "User-1"]
    /\ certCheck.outcome = "false"

\* C20: the relay keeps for each connection the certificate of its latest
\* register_with_cert frame; it answers a get_cert frame with one
\* cert_response to the sender, carrying the targetId asked for and the
\* certificate kept for it, when the target is a connected client that has
\* registered a certificate, and with no frame at all otherwise.
C20_CertResponseIsLatestCertificate ==
    [][/\ IF relayIn'.msg.type = "register_with_cert"
          THEN relayCert' = [relayCert EXCEPT ![relayIn'.from] = relayIn'.msg.payload]
          ELSE relayCert' = relayCert
       /\ relayIn'.msg.type = "get_cert" =>
             LET S == relayIn'.from
                 t == relayIn'.msg.targetId
             IN /\ \A o \in AuthIds \ {S} : Len(toAuth'[o]) <= Len(toAuth[o])
                /\ IF t \in authClients /\ relayCert[t] # NoCert
                   THEN toAuth'[S] = Append(toAuth[S],
                                           [type |-> "cert_response",
                                            targetId |-> t,
                                            certificate |-> relayCert[t]])
                   ELSE toAuth'[S] = toAuth[S]]_vars

\* the peer "r" has registered twice, and the relay has just answered the
\* get_cert of a client for "r" with the certificate of the second frame
C20_Witness ==
    /\ used.registers = 2
    /\ relayIn.msg.type = "get_cert"
    /\ relayIn.msg.targetId = Rogue
    /\ relayIn.from \in AuthHonest
    /\ toAuth[relayIn.from] # <<>>
    /\ toAuth[relayIn.from][Len(toAuth[relayIn.from])] =
          [type |-> "cert_response", targetId |-> Rogue, certificate |-> ForgedCert]

C24_ChangedEnvelopeFails ==
    (/\ aesCall.outcome # [none |-> TRUE]
     /\ aesCall.changed \in {"ciphertext", "ciphertext respelled", "authTag",
                             "authTag respelled", "authTag truncated"}
     /\ aesCall.presented # aesCall.envelope
     /\ aesCall.decryptKey = aesCall.key)
    => aesCall.outcome = [throws |-> TRUE]

\* a step in which Phase 3 client c handles the chat frame at the head of
\* its queue
ChatStep(c) ==
    /\ toClient[c] # <<>>
    /\ Head(toClient[c]).type = "direct"
    /\ Head(toClient[c]).payload.type = "chat"
    /\ toClient'[c] = Tail(toClient[c])

\* the key under which the envelope was encrypted
EnvelopeKey(envelope) == ToBase64(FromBase64(envelope.encrypted).key)

\* C23: a client whose session key is K2 and that handles a chat encrypted
\* by encryptMessageAES under another key K1 gets an error from
\* decryptMessageAES and no plaintext: it prints the decrypt failure and
\* displays nothing as a secure message.
C23_WrongKeyDropped ==
    [][\A c \in Clients :
          (/\ ChatStep(c)
           /\ sessionKey[c] # NoKey
           /\ EnvelopeKey(Head(toClient[c]).payload.content) # sessionKey[c])
          => /\ DecryptOutcome(Head(toClient[c]).payload.content, sessionKey[c])
                  = [throws |-> TRUE]
             /\ shown' = shown
             /\ lastLog'[c] = "DECRYPT FAIL"]_vars

\* a client has handled a chat encrypted under a key that is not its own
\* session key
C23_Witness ==
    \E c \in Clients :
        /\ lastLog[c] = "DECRYPT FAIL"
        /\ sessionKey[c] # NoKey
        /\ shown[c] = <<>>

\* a step in which Phase 5 client c handles the chat frame at the head of
\* its queue
AuthChatStep(c) ==
    /\ toAuth[c] # <<>>
    /\ Head(toAuth[c]).type = "direct"
    /\ Head(toAuth[c]).payload.type = "chat"
    /\ toAuth'[c] = Tail(toAuth[c])

\* the chat at the head of c's queue decrypts under c's session key
HeadDecrypts(c) ==
    /\ authKey[c] # NoKey
    /\ ~DecryptMessageThrows(Head(toAuth[c]).payload.content, authKey[c])

\* the packet in the chat at the head of c's queue
HeadPacket(c) == decryptMessageAES(Head(toAuth[c]).payload.content, authKey[c])

\* a packet is displayed only by a chat step whose envelope decrypted under
\* the session key and whose packet validate accepted
DisplayedOnlyAfterGuard(c) ==
    authShown'[c] # authShown[c] =>
        /\ AuthChatStep(c)
        /\ HeadDecrypts(c)
        /\ ValidateResult(now, seenNonces, HeadPacket(c))
        /\ authShown'[c] = Append(authShown[c],
                                  [senderId |-> Head(toAuth[c]).senderId,
                                   packet |-> HeadPacket(c)])

\* C25: a chat is displayed only if its envelope decrypted under the
\* current session key and validate returned true for the packet; an
\* envelope that is delivered again is not displayed a second time, and
\* that delivery is logged as rejected.
C25_GuardGatesDisplay ==
    [][\A c \in AuthHonest :
          /\ DisplayedOnlyAfterGuard(c)
          /\ (/\ AuthChatStep(c)
              /\ HeadDecrypts(c)
              /\ \E i \in DOMAIN authShown[c] :
                    authShown[c][i].packet = HeadPacket(c))
             => /\ authShown'[c] = authShown[c]
                /\ authLog'[c] = "REJECTED"]_vars

\* C26: a client that handles a chat frame sends no frame, whether the chat
\* was displayed, failed to decrypt or was rejected as a replay: the relay
\* handles nothing in that step and no other connection's queue changes.
C26_ChatHandlingSendsNothing ==
    [][\A c \in AuthHonest :
          AuthChatStep(c) =>
              /\ relayIn' = NoFrame
              /\ relayCert' = relayCert
              /\ \A o \in AuthIds \ {c} : toAuth'[o] = toAuth[o]]_vars

\* a client has displayed one chat and has rejected its second delivery
C26_Witness ==
    \E c \in AuthHonest :
        /\ authLog[c] = "REJECTED"
        /\ Len(authShown[c]) = 1
        /\ relayIn = NoFrame

\* C27: every root_key reply carries the same public key, whichever
\* connection asked and whenever, and every certificate the CA has issued
\* is signed by the private key that matches it: it verifies under the key
\* of any root_key reply.
C27_OneRootKeyPair ==
    \A r1 \in Requesters, r2 \in Requesters :
        caRootSent[r1] # "null" =>
            /\ caRootSent[r2] # "null" => caRootSent[r2] = caRootSent[r1]
            /\ caHeld[r2].cert # NoCert =>
                  VerifyOutcome(caHeld[r2].cert, caRootSent[r1]) = "true"

\* both connections have the root key and a certificate, for different
\* user ids
C27_Witness ==
    /\ \A r \in Requesters : caRootSent[r] # "null" /\ caHeld[r].cert # NoCert
    /\ caHeld["c1"].cert # caHeld["c2"].cert

\* C28: the CA checks no identity.  Whatever connection sends
\* sign_request {userId, userPublicKey}, it gets a certificate that carries
\* exactly that user id and that public key and that verifies under the
\* root key.
C28_SignsWhateverIsAsked ==
    \A r \in Requesters :
        LET asked == caHeld[r].asked
            cert == caHeld[r].cert
        IN (asked # NoCert /\ {"userId", "userPublicKey"} \subseteq DOMAIN asked) =>
              /\ cert # NoCert
              /\ {"userId", "publicKey"} \subseteq DOMAIN cert
              /\ cert.userId = asked.userId
              /\ cert.publicKey = asked.userPublicKey
              /\ VerifyOutcome(cert, CaRootKey) = "true"

\* two connections hold valid certificates for the same user id with
\* different public keys
C28_Witness ==
    LET c1 == caHeld["c1"].cert
        c2 == caHeld["c2"].cert
    IN /\ c1 # NoCert /\ c2 # NoCert
       /\ {"userId", "publicKey"} \subseteq DOMAIN c1
       /\ {"userId", "publicKey"} \subseteq DOMAIN c2
       /\ c1.userId = c2.userId
       /\ c1.publicKey # c2.publicKey
       /\ VerifyOutcome(c1, CaRootKey) = "true"
       /\ VerifyOutcome(c2, CaRootKey) = "true"

\* what a Phase 5 client sends and opens when it starts, in order
BootOrder == <<"get_root_key", "sign_request", "chat connection", "register_with_cert">>

\* C29: a Phase 5 client sends get_root_key, then sign_request, then opens
\* its chat connection and sends register_with_cert, in that order and each
\* once; when it has a connection to the relay or is registered there, it
\* has received the root key and its certificate, and the certificate it
\* registered is that certificate.
C29_RegistersAfterBootstrap ==
    \A c \in AuthHonest :
        /\ Len(bootSent[c]) <= Len(BootOrder)
        /\ bootSent[c] = SubSeq(BootOrder, 1, Len(bootSent[c]))
        /\ (c \in authClients \/ Len(bootSent[c]) >= 3 \/ relayCert[c] # NoCert) =>
              /\ caRootKey[c] # "null"
              /\ myCertificate[c] # NoCert
        /\ relayCert[c] # NoCert => relayCert[c] = myCertificate[c]

\* both clients have registered with the relay
C29_Witness ==
    \A c \in AuthHonest :
        /\ bootSent[c] = BootOrder
        /\ relayCert[c] # NoCert

\* the chat frame at the head of the queue of client b comes from client a,
\* which sent it to b under a key it generated itself: a had issued connect b
\* (the only way it comes to hold a key of its own with b as its target)
\* and then msg
SentAfterConnect(a, b) ==
    /\ a # b
    /\ ChatStep(b)
    /\ Head(toClient[b]).senderId = a
    /\ FromBase64(EnvelopeKey(Head(toClient[b]).payload.content))[2] = a

\* C30: when A has issued connect B and then msg m, and the relay has
\* delivered A's frames to B in the order sent, B on handling the chat frame
\* displays m as a secure message attributed to A.
C30_MessageAfterConnectDisplayed ==
    [][\A a \in Clients, b \in Clients :
          SentAfterConnect(a, b) =>
              /\ lastLog'[b] = "SECURE"
              /\ shown'[b] = Append(shown[b],
                    [senderId |-> a,
                     text |-> Utf8Decode(FromBase64(
                                Head(toClient[b]).payload.content.encrypted).gcm)])]_vars

\* the user_list frame the step appends to the queue `new`, as a set (empty
\* when the step appends none)
ListSent(old, new) ==
    IF Len(new) > Len(old) /\ new[Len(new)].type = "user_list"
    THEN {new[Len(new)]} ELSE {}

ChatSent(c, t) ==
    IF /\ Len(toClient'[t]) = Len(toClient[t]) + 1
       /\ toClient'[t][Len(toClient'[t])].type = "direct"
       /\ toClient'[t][Len(toClient'[t])].senderId = c
       /\ toClient'[t][Len(toClient'[t])].payload.type = "chat"
    THEN {toClient'[t][Len(toClient'[t])]} ELSE {}

\* C33: msg sends a chat frame only when the client holds a session key
\* and a target.  The frame goes to the current target, its content is
\* encryptMessageAES of the text under the current session key, and key
\* and target are left as they were.
C33_MsgNeedsSession ==
    [][\A c \in Clients, t \in Clients : \A frame \in ChatSent(c, t) :
          /\ sessionKey[c] # NoKey
          /\ targetUser[c] # NoUser
          /\ t = targetUser[c].id
          /\ EnvelopeKey(frame.payload.content) = sessionKey[c]
          /\ ~DecryptMessageThrows(frame.payload.content, sessionKey[c])
          /\ decryptMessageAES(frame.payload.content, sessionKey[c]) \in Texts
          /\ sessionKey'[c] = sessionKey[c]
          /\ targetUser'[c] = targetUser[c]]_vars

\* a chat frame is on its way to the target of its sender, encrypted under
\* the sender's session key
C33_Witness ==
    \E c \in Clients, t \in Clients :
        /\ c # t
        /\ targetUser[c] # NoUser /\ targetUser[c].id = t
        /\ toClient[t] # <<>>
        /\ Head(toClient[t]).type = "direct"
        /\ Head(toClient[t]).payload.type = "chat"
        /\ Head(toClient[t]).senderId = c
        /\ EnvelopeKey(Head(toClient[t]).payload.content) = sessionKey[c]

\* C34: a client that handles a chat frame while it holds no session key
\* displays nothing and prints no outcome of a decryption, does not call
\* validate (the nonce set, the timers and the last result of the guard
\* stay), and keeps having no session key and the target it had.
C34_ChatWithoutKeyIgnored ==
    [][\A c \in AuthHonest :
          (AuthChatStep(c) /\ authKey[c] = NoKey) =>
              /\ authShown' = authShown
              /\ authLog' = authLog
              /\ seenNonces' = seenNonces
              /\ timers' = timers
              /\ result' = result
              /\ authKey' = authKey
              /\ authTarget' = authTarget]_vars

\* the client has taken every chat frame sent to it and holds no session
\* key, so it held none when it handled them
C34_Witness ==
    /\ used.chats > 0
    /\ stage["p"] = "open"
    /\ toAuth["p"] = <<>>
    /\ authKey["p"] = NoKey

\* the last frame of a queue
Last(queue) == queue[Len(queue)]

\* Phase 3 client c after the step: key and target are both set or both
\* unset, and if either changed, the step was a connect that sent the new
\* key, wrapped, to the new target, or the handling of a key_exchange that
\* carried the new key and came from the new target
PairedSession(c) ==
    /\ (sessionKey'[c] = NoKey) <=> (targetUser'[c] = NoUser)
    /\ (sessionKey'[c] # sessionKey[c] \/ targetUser'[c] # targetUser[c]) =>
          \/ /\ ConnectStep(c)
             /\ sessionKey'[c] = generateAESKey(c, keysGenerated'[c])
             /\ toClient'[targetUser'[c].id] # <<>>
             /\ Last(toClient'[targetUser'[c].id]) =
                   [type |-> "direct", senderId |-> c,
                    payload |-> [type |-> "key_exchange",
                                 encryptedKey |->
                                   encryptAESKeyWithRSA(sessionKey'[c],
                                                        targetUser'[c].publicKey)]]
          \/ /\ KeyExchangeStep(c)
             /\ ~ConnectStep(c)
             /\ Head(toClient[c]).senderId = targetUser'[c].id
             /\ ~DecryptThrows(Head(toClient[c]).payload.encryptedKey, PrivateKeyOf(c))
             /\ sessionKey'[c] =
                   decryptAESKeyWithRSA(Head(toClient[c]).payload.encryptedKey,
                                        PrivateKeyOf(c))

\* a step in which Phase 5 client c handles the key_exchange frame at the
\* head of its queue
AuthKeyExchangeStep(c) ==
    /\ toAuth[c] # <<>>
    /\ Head(toAuth[c]).type = "direct"
    /\ Head(toAuth[c]).payload.type = "key_exchange"
    /\ toAuth'[c] = Tail(toAuth[c])

\* the same for Phase 5 client c: the key is offered in the key_exchange
\* sent after a valid cert_response
AuthPairedSession(c) ==
    /\ (authKey'[c] = NoKey) <=> (authTarget'[c] = NoUser)
    /\ (authKey'[c] # authKey[c] \/ authTarget'[c] # authTarget[c]) =>
          \/ /\ CertResponseStep(c)
             /\ authTarget'[c].id = Head(toAuth[c]).certificate.userId
             /\ relayIn' =
                   [from |-> c,
                    msg |-> [type |-> "direct", targetId |-> authTarget'[c].id,
                             payload |-> [type |-> "key_exchange",
                                          encryptedKey |->
                                            encryptAESKeyWithRSA(authKey'[c],
                                                                 authTarget'[c].publicKey)]]]
          \/ /\ AuthKeyExchangeStep(c)
             /\ Head(toAuth[c]).senderId = authTarget'[c].id
             /\ ~DecryptThrows(Head(toAuth[c]).payload.encryptedKey, PrivateKeyOf(c))
             /\ authKey'[c] =
                   decryptAESKeyWithRSA(Head(toAuth[c]).payload.encryptedKey,
                                        PrivateKeyOf(c))

WellFormed(packet) == {"timestamp", "nonce"} \subseteq DOMAIN packet

\* C40: validate accepts only well-formed packets.  When a client handles a
\* chat whose decrypted packet lacks its timestamp or its nonce, or has one
\* of another type, validate returns false: the packet is logged as
\* rejected, it is not displayed, and nothing is added to the nonce set.
C40_MalformedPacketRejected ==
    [][\A c \in AuthHonest :
          (AuthChatStep(c) /\ HeadDecrypts(c) /\ ~WellFormed(HeadPacket(c))) =>
              /\ authLog'[c] = "REJECTED"
              /\ result' = "false"
              /\ authShown' = authShown
              /\ seenNonces' = seenNonces]_vars

\* the nonces client c draws for the packets it sends
OwnNonces(c) == {MsgNonce(c, k) : k \in 1..4}

\* the chat at the head of c's queue is an envelope c produced: it opens
\* under c's session key and its packet carries a nonce c drew
HeadIsOwnEnvelope(c) ==
    /\ HeadDecrypts(c)
    /\ "nonce" \in DOMAIN HeadPacket(c)
    /\ HeadPacket(c).nonce \in OwnNonces(c)

\* C36: a chat envelope that client c itself produced and that the relay
\* hands back to c is not displayed by c: the step that handles it leaves
\* what c has displayed as it was
C36_OwnEnvelopeNotDisplayed ==
    [][\A c \in AuthHonest :
          (AuthChatStep(c) /\ HeadIsOwnEnvelope(c)) => authShown'[c] = authShown[c]]_vars

\* the (userId, publicKey) pair a certificate names
CertPair(cert) == <<Field(cert, "userId"), Field(cert, "publicKey")>>

\* the pairs of the certificates the CA has issued: the latest and the
\* one each connection holds
IssuedPairs ==
    {CertPair(cert) : cert \in ({caIssued} \cup {caHeld[r].cert : r \in Requesters})
                                \ {NoCert}}

\* C37: a certificate that verifies under the root key names a (userId,
\* publicKey) pair for which the CA issued a certificate; no signature is
\* valid for a pair other than the one it was issued for.
C37_ValidOnlyForIssuedPair ==
    certCheck.outcome = "true" => CertPair(certCheck.cert) \in IssuedPairs

\* C38: a client that handles a cert_response whose certificate names a
\* user id other than the targetId the response answers keeps its session
\* key and its target and sends no key_exchange.
C38_HandshakeOnlyWithRequestedPeer ==
    [][\A c \in AuthHonest :
          (/\ CertResponseStep(c)
           /\ Field(Head(toAuth[c]).certificate, "userId") # Head(toAuth[c]).targetId)
          => /\ authKey'[c] = authKey[c]
             /\ authTarget'[c] = authTarget[c]
             /\ relayIn' = NoFrame]_vars

\* C39: every open connection is the one `clients` keeps under its id, and
\* every entry of `clients` is an open connection with that id; so no two
\* open connections have one id, and no close has removed the entry of a
\* connection that is still open.
C39_RegistryOneToOne ==
    /\ \A s \in 1..MaxSockets :
          readyState[s] = "open" =>
              wsId[s] \in DOMAIN clients /\ clients[wsId[s]] = s
    /\ \A id \in DOMAIN clients :
          readyState[clients[id]] = "open" /\ wsId[clients[id]] = id

\* a step in which the browser client handles the chat frame at the head
\* of its inbox
WebChatStep ==
    /\ webInbox # <<>>
    /\ Head(webInbox).payload.type = "chat"
    /\ webInbox' = Tail(webInbox)

\* C31: once the browser client has processed a key_exchange of S and holds
\* its key, a chat frame of S encrypted under that key is decrypted with
\* that key and its plaintext is the message displayed.
C31_ChatDecryptedUnderCurrentKey ==
    [][(/\ WebChatStep
        /\ webSessionKey # NoKey
        /\ webTargetUser = Head(webInbox).senderId
        /\ ~DecryptMessageThrows(Head(webInbox).payload.content, webSessionKey))
       => webMessages' =
             Append(webMessages,
                    [sender |-> Head(webInbox).senderId,
                     text |-> decryptMessageAES(Head(webInbox).payload.content,
                                                webSessionKey)])]_vars
====
